---------------------------- MODULE Spec2Model ----------------------------
(***************************************************************************)
(* Event relay and injected runtime adapter of the eeko CLI.               *)
(*                                                                         *)
(*   - createDevWebSocketServer : linear port probing                      *)
(*   - DevWebSocketServer       : the relay (connection set, broadcast)    *)
(*   - LocalDevAdapter          : the in-page adapter (registry, state)    *)
(*                                                                         *)
(* JavaScript objects are functions from field names to values; a field    *)
(* that is absent reads as Undefined.  A JSON value is written as its      *)
(* canonical text.                                                         *)
(***************************************************************************)
EXTENDS Integers, Sequences, FiniteSets, TLC

VARIABLES
    \* createDevWebSocketServer
    pfPc,            \* "idle" | "probing" | "bound" | "failed"
    startPort,       \* the argument
    pfI,             \* loop variable i
    probes,          \* log of bind attempts: <<[port, outcome]>>
    pfPort,          \* DevWebSocketServer.port of the returned server (0: none)
    pfError,         \* the error the promise rejected with
    \* DevWebSocketServer
    listening,       \* the WebSocketServer accepts connections
    clients,         \* this.clients
    sock,            \* readyState of each server-side socket
    inbox,           \* per socket: the texts handed to ws.send, in send order
    notes,           \* the this.emit(...) notifications of the latest relay step
    raised,          \* an exception reached the caller of a relay method
    broadcasts,      \* log of the messages passed to broadcast, in call order
    joinedAt,        \* per socket: Len(broadcasts) when it connected
    last,            \* label of the most recent relay step
    \* LocalDevAdapter
    listeners,       \* this.listeners : Map kind -> Set of handlers
    state,           \* this.state
    isInitialized,   \* this.isInitialized
    ws,              \* readyState of this.ws; "ERRORED": CLOSED, with the
                     \* 'close' event still to be fired
    reconnectAttempts,
    timers,          \* pending setTimeout(() => this.connect()) callbacks
    calls,           \* handler invocations of the latest onmessage, in order
    escaped,         \* an exception left an adapter entry point
    gotInit,         \* an init command was handled on the current socket
    wsPeer,          \* the relay-side socket of this.ws (0: not attached)
    rcvd,            \* messages of inbox[wsPeer] already handed to onmessage
    alast,           \* label of the most recent adapter step
    \* startDevServer
    fieldJson,       \* field.json in the working directory: "missing" | "invalid" | "ok"
    wsPort,          \* options.wsPort
    devPc,           \* "idle" | "serving"
    templateEngine,  \* <<>> for null, <<globalConfig>> for an engine
    warned,          \* console.warn('[Dev] Failed to load field.json:') was called
    served,          \* the latest request the plugin transformed, and its answer
    \* getShortcutMap, findEventByShortcut
    shortcut,        \* the key looked up
    scI,             \* getShortcutMap: definitions visited
    scMap,           \* getShortcutMap: the map being filled
    scPc,            \* "loop" | "built" | "done"
    mapResult,       \* getShortcutMap().get(shortcut): <<>> or <<definition>>
    feI,             \* findEventByShortcut: definitions visited
    fePc,            \* "loop" | "done"
    feResult,        \* findEventByShortcut(shortcut): <<>> or <<definition>>
    \* DevUI (eeko dev) and TestUI (eeko test)
    serverStatus,    \* "starting" | "ready" | "error"
    wsClients,       \* the client counter
    events,          \* the event log
    arrived,         \* the 'event' notifications since the log was last empty
    uiError,         \* a state updater of DevUI threw: its render failed
    showEventMenu,   \* the test event menu is open
    testConn,        \* eeko test: the port dialled and what answered there
    \* history
    outlived         \* the (kind, handler) pairs registered when the adapter's
                     \* latest outage began and not removed since

pfVars == <<pfPc, startPort, pfI, probes, pfPort, pfError>>
relayVars == <<listening, clients, sock, inbox, notes, raised, broadcasts,
               joinedAt, last>>
adapterVars == <<listeners, state, isInitialized, ws, reconnectAttempts, timers,
                 calls, escaped, gotInit, wsPeer, rcvd, alast>>
assetVars == <<fieldJson, wsPort, devPc, templateEngine, warned, served>>
catalogVars == <<shortcut, scI, scMap, scPc, mapResult, feI, fePc, feResult>>
dashVars == <<serverStatus, wsClients, events, arrived, uiError, showEventMenu,
              testConn>>
toolVars == <<assetVars, catalogVars, dashVars, outlived>>
vars == <<pfVars, relayVars, adapterVars, toolVars>>

Undefined == "undefined"
Null == "null"

\* obj.f in JavaScript: Undefined when the field is absent
Get(obj, f) == IF f \in DOMAIN obj THEN obj[f] ELSE Undefined

EmptyObject == [f \in {} |-> Undefined]

-----------------------------------------------------------------------------
(* createDevWebSocketServer                                                *)

maxAttempts == 100
DefaultStartPort == 9876
MinValidPort == 1024
MaxValidPort == 65535

\* the arguments tried: the lowest port validatePort accepts, the default,
\* and one less than maxAttempts below the top of the TCP range
StartPorts == {MinValidPort, DefaultStartPort, 65500}

\* what `new WebSocketServer({ port })` can answer: 'listening', or 'error'
\* with an errno code; a port above the TCP range is refused by listen()
\* itself.
BindOutcomes(port) ==
    IF port > MaxValidPort
    THEN {"ERR_SOCKET_BAD_PORT"}
    ELSE {"listening", "EADDRINUSE", "EACCES"}

NoError == [code |-> "", text |-> "", ports |-> <<>>]

\* the err object of wss.once('error', ...)
BindError(code, port) == [code |-> code, text |-> "listen", ports |-> <<port>>]

\* new Error(`No available port found starting from ${startPort}`)
ExhaustionError(sp) ==
    [code |-> Undefined, text |-> "No available port found starting from",
     ports |-> <<sp>>]

\* a probe that skips every other port
ProbePortSkipping(sp, i) == sp + 2 * i

\* const port = startPort + i
ProbePort(sp, i) == sp + i

\* a loop that runs one iteration too many
LoopContinuesOneMore(i) == i <= maxAttempts

\* for (...; i < maxAttempts; ...)
LoopContinues(i) == i < maxAttempts

\* a catch that retries after every error
IsAddrInUseAnyError(code) == code # "listening"

\* error.code === 'EADDRINUSE'
IsAddrInUse(code) == code = "EADDRINUSE"

InitPf ==
    /\ pfPc = "idle"
    /\ startPort = 0
    /\ pfI = 0
    /\ probes = <<>>
    /\ pfPort = 0
    /\ pfError = NoError

\* the call: the loop is entered with i = 0 (maxAttempts > 0)
PfCall(sp) ==
    /\ pfPc = "idle"
    /\ pfPc' = "probing"
    /\ startPort' = sp
    /\ pfI' = 0
    /\ UNCHANGED <<probes, pfPort, pfError, listening>>

\* one iteration of the loop: the bind is awaited, then the function
\* returns a new DevWebSocketServer, continues or throws; the throw after
\* the loop is reached in the same turn as the last `continue`.
PfProbe(outcome) ==
    /\ pfPc = "probing"
    /\ LoopContinues(pfI)
    /\ outcome \in BindOutcomes(ProbePort(startPort, pfI))
    /\ probes' = Append(probes, [port |-> ProbePort(startPort, pfI), outcome |-> outcome])
    /\ UNCHANGED startPort
    /\ listening' = (outcome = "listening")
    /\ IF outcome = "listening"
       THEN /\ pfPc' = "bound"
            /\ pfPort' = ProbePort(startPort, pfI)
            /\ UNCHANGED <<pfI, pfError>>
       ELSE IF IsAddrInUse(outcome)
       THEN /\ pfI' = pfI + 1
            /\ IF LoopContinues(pfI + 1)
               THEN /\ pfPc' = "probing"
                    /\ UNCHANGED <<pfPort, pfError>>
               ELSE /\ pfPc' = "failed"
                    /\ pfError' = ExhaustionError(startPort)
                    /\ UNCHANGED pfPort
       ELSE /\ pfPc' = "failed"
            /\ pfError' = BindError(outcome, ProbePort(startPort, pfI))
            /\ UNCHANGED <<pfI, pfPort>>

-----------------------------------------------------------------------------
(* Wire format                                                             *)

\* fields whose value is a scalar and may therefore be `undefined`; `state`
\* and `metadata` hold mappings or are absent
ScalarFields == {"type", "event", "payload", "command"}

\* JSON.stringify(obj): a field whose value is undefined is left out
JSONstringify(obj) ==
    [jsonObject |->
        [f \in {g \in DOMAIN obj : g \in ScalarFields => obj[g] # Undefined} |-> obj[f]]]

\* JSON.parse(text) succeeds
Parses(text) == "garbage" \notin DOMAIN text

\* JSON.parse(text) yields an object (not null, a number, a string, ...)
ParsesToObject(text) == "jsonObject" \in DOMAIN text

\* JSON.parse(text) yields null: reading a field of it throws a TypeError
ParsesToNull(text) == "jsonOther" \in DOMAIN text /\ text.jsonOther = Null

\* the object JSON.parse(text) returns, for ParsesToObject(text)
JSONparse(text) == text.jsonObject

\* an optional argument: <<>> when omitted, <<v>> when given
Optional(field, opt) ==
    IF opt = <<>> THEN EmptyObject ELSE [f \in {field} |-> opt[1]]

\* f @@ g without the TLC module's operator precedence pitfalls
Merge(f, g) ==
    [k \in (DOMAIN f) \cup (DOMAIN g) |-> IF k \in DOMAIN f THEN f[k] ELSE g[k]]

-----------------------------------------------------------------------------
(* DevWebSocketServer                                                      *)

MaxPeers == 2
MaxBroadcasts == 2

Peers == 1..MaxPeers

DefaultState ==
    [componentId |-> "dev-component", userId |-> "dev-user",
     globalConfig |-> "{}", variantConfig |-> "{}"]

\* an init that carries the state most recently passed to setState
InitMessageMirrored ==
    [type |-> "command", command |-> "init",
     state |-> IF \E k \in 1..Len(broadcasts) : broadcasts[k].via = "setState"
               THEN Merge((CHOOSE b \in {broadcasts[k] : k \in 1..Len(broadcasts)} :
                               b.via = "setState").message.state,
                          DefaultState)
               ELSE DefaultState]

\* the message of the connection handler
InitMessage == [type |-> "command", command |-> "init", state |-> DefaultState]

\* the message emitEvent builds; the clock is abstracted to one instant
EventMessage(event, payload) ==
    [type |-> "event", event |-> event, payload |-> payload,
     metadata |-> [timestamp |-> "now", source |-> "cli"]]

\* a setState that tags its message as an event
StateMessageTaggedEvent(s) == [type |-> "event", state |-> s]

\* the message setState builds
StateMessage(s) == [type |-> "state", state |-> s]

\* the message sendCommand builds; state is an optional argument
CommandMessage(command, optState) ==
    Merge([type |-> "command", command |-> command], Optional("state", optState))

\* client.readyState === WebSocket.OPEN
IsOpen(p) == sock[p] = "OPEN"

\* a forEach that returns after the first client
BroadcastSendsToFirstOnly(p) ==
    /\ p \in clients /\ IsOpen(p)
    /\ \A q \in clients : p <= q

\* a forEach body without the readyState test
BroadcastSendsToAnyState(p) == p \in clients

\* the guard of broadcast's forEach body
BroadcastSendsTo(p) == p \in clients /\ IsOpen(p)

\* ws.send on a socket that is not OPEN fails (it throws or reports an
\* error, depending on the version of ws); a failing send is recorded
SendFails(p) == ~IsOpen(p)

\* broadcast(message): the inboxes after the call
BroadcastInbox(message) ==
    [p \in Peers |->
        IF BroadcastSendsTo(p) /\ ~SendFails(p)
        THEN Append(inbox[p], JSONstringify(message))
        ELSE inbox[p]]

\* broadcast(message): some send inside it failed
BroadcastRaises == \E p \in Peers : BroadcastSendsTo(p) /\ SendFails(p)

\* a notification whose count is read before the set is updated
CountNoteBefore(name, set) == [name |-> name, count |-> Cardinality(clients)]

\* this.emit(name, {count: this.clients.size})
CountNote(name, set) == [name |-> name, count |-> Cardinality(set)]

\* this.emit('event', {type, payload})
EventNote(type, payload) == [name |-> "event", type |-> type, payload |-> payload]

InitRelay ==
    /\ listening = TRUE
    /\ clients = {}
    /\ sock = [p \in Peers |-> "NONE"]
    /\ inbox = [p \in Peers |-> <<>>]
    /\ notes = <<>>
    /\ raised = FALSE
    /\ broadcasts = <<>>
    /\ joinedAt = [p \in Peers |-> 0]
    /\ last = [op |-> "constructor"]

\* wss.on('connection', (ws) => ...): a new socket p, already OPEN
WssConnection(p) ==
    /\ listening
    /\ sock[p] = "NONE"
    /\ sock' = [sock EXCEPT ![p] = "OPEN"]
    /\ clients' = clients \cup {p}
    /\ notes' = <<CountNote("client:connect", clients')>>
    /\ inbox' = [inbox EXCEPT ![p] = Append(@, JSONstringify(InitMessage))]
    /\ joinedAt' = [joinedAt EXCEPT ![p] = Len(broadcasts)]
    /\ last' = [op |-> "connection", peer |-> p]
    /\ UNCHANGED <<listening, raised, broadcasts>>

-----------------------------------------------------------------------------
(* Inputs of the relay                                                     *)

\* event kinds the callers use: one of the adapter's kinds and one of the
\* catalog's kinds that the adapter does not know
CallKinds == {"chat_message", "subscription_event"}

\* payloads: JSON values, and undefined for a call without one
CallPayloads == {"{text:hi}", Undefined}

\* partial states passed to setState
PartialStates == {[userId |-> "u2"]}

\* the arguments of sendCommand: <<command, state?>>
CommandCalls ==
    { <<"init", <<[globalConfig |-> "{theme:dark}", extra |-> "x"]>>>>,
      <<"reset", <<>>>>,
      <<"disconnect", <<>>>> }

\* what `eeko test` sends (TestUI): an event with a payload and metadata
TestUIText(event, payload) == JSONstringify(EventMessage(event, payload))

\* texts a peer may send to the relay
PeerTexts ==
    { TestUIText("chat_message", "{text:hi}"),
      [jsonObject |-> [type |-> "event", event |-> "component_mount",
                       payload |-> Null, origin |-> "page"]],
      [jsonObject |-> [type |-> "event", event |-> "chat_message"]],
      [jsonObject |-> [type |-> "event", event |-> Null, payload |-> "{text:hi}"]],
      JSONstringify(StateMessage([userId |-> "u2"])),
      JSONstringify(CommandMessage("reset", <<>>)),
      [jsonOther |-> Null],
      [garbage |-> "{oops"] }

\* the broadcast log may still grow
MayBroadcast == Len(broadcasts) < MaxBroadcasts

\* a relay that builds a new event message from the kind and the payload
RebroadcastRebuilt(message) ==
    EventMessage(Get(message, "event"), Get(message, "payload"))

\* the message handleMessage passes to broadcast
Rebroadcast(message) == message

\* the effect of a call of broadcast(message) followed by `after`, the
\* notification the caller emits when broadcast returns (<<>>: none);
\* `caught`: the caller sits inside a try block
BroadcastThen(via, message, after, caught) ==
    /\ inbox' = BroadcastInbox(message)
    /\ broadcasts' = Append(broadcasts, [via |-> via, message |-> message])
    /\ notes' = IF BroadcastRaises THEN <<>> ELSE after
    /\ raised' = (raised \/ (BroadcastRaises /\ ~caught))

\* a handleMessage that treats a state message as it treats an event
HandledAsEventOrState(message) == Get(message, "type") \in {"event", "state"}

\* handleMessage: if (message.type === 'event')
HandledAsEvent(message) == Get(message, "type") = "event"

\* ws.on('message', (data) => ...) with handleMessage
WsOnMessage(p, text) ==
    /\ sock[p] \in {"OPEN", "CLOSING"}
    /\ text \in PeerTexts
    /\ last' = [op |-> "message", peer |-> p, text |-> text]
    /\ IF ParsesToObject(text) /\ HandledAsEvent(JSONparse(text))
       THEN /\ MayBroadcast
            /\ BroadcastThen("handleMessage", Rebroadcast(JSONparse(text)),
                   <<EventNote(Get(JSONparse(text), "event"),
                               Get(JSONparse(text), "payload"))>>, TRUE)
            /\ UNCHANGED <<listening, clients, sock, joinedAt>>
       ELSE /\ notes' = <<>>
            /\ UNCHANGED <<listening, clients, sock, inbox, raised, broadcasts,
                           joinedAt>>

\* a delete that removes nothing
ClientsDeleteNothing(set, p) == set

\* a delete that empties the set
ClientsDeleteAll(set, p) == {}

\* this.clients.delete(ws)
ClientsDelete(set, p) == set \ {p}

\* ws.on('close', ...)
WsOnClose(p) ==
    /\ sock[p] \in {"OPEN", "CLOSING"}
    /\ sock' = [sock EXCEPT ![p] = "CLOSED"]
    /\ clients' = ClientsDelete(clients, p)
    /\ notes' = <<CountNote("client:disconnect", clients')>>
    /\ last' = [op |-> "close", peer |-> p]
    /\ UNCHANGED <<listening, inbox, raised, broadcasts, joinedAt>>

\* ws.on('error', ...): ws has moved the socket to CLOSING when it emits
\* 'error'; 'close' follows in a later turn
WsOnError(p) ==
    /\ sock[p] \in {"OPEN", "CLOSING"}
    /\ sock' = [sock EXCEPT ![p] = "CLOSING"]
    /\ clients' = ClientsDelete(clients, p)
    /\ notes' = <<>>
    /\ last' = [op |-> "error", peer |-> p]
    /\ UNCHANGED <<listening, inbox, raised, broadcasts, joinedAt>>

\* the peer starts the closing handshake, or its connection drops: the
\* socket is CLOSING until its 'close' event is emitted
PeerCloses(p) ==
    /\ sock[p] = "OPEN"
    /\ sock' = [sock EXCEPT ![p] = "CLOSING"]
    /\ last' = [op |-> "closing", peer |-> p]
    /\ notes' = <<>>
    /\ UNCHANGED <<listening, clients, inbox, raised, broadcasts, joinedAt>>

\* emitEvent(event, payload)
EmitEvent(event, payload) ==
    /\ MayBroadcast
    /\ BroadcastThen("emitEvent", EventMessage(event, payload),
           <<EventNote(event, payload)>>, FALSE)
    /\ last' = [op |-> "emitEvent", event |-> event, payload |-> payload]
    /\ UNCHANGED <<listening, clients, sock, joinedAt>>

\* setState(state)
SetState(s) ==
    /\ MayBroadcast
    /\ BroadcastThen("setState", StateMessage(s), <<>>, FALSE)
    /\ last' = [op |-> "setState", state |-> s]
    /\ UNCHANGED <<listening, clients, sock, joinedAt>>

\* sendCommand(command, state?)
SendCommand(command, optState) ==
    /\ MayBroadcast
    /\ BroadcastThen("sendCommand", CommandMessage(command, optState), <<>>, FALSE)
    /\ last' = [op |-> "sendCommand", command |-> command, optState |-> optState]
    /\ UNCHANGED <<listening, clients, sock, joinedAt>>

\* a close() without this.clients.clear()
ClientsAfterCloseKept == clients

\* this.clients.clear()
ClientsAfterClose == {}

\* close(): client.close() moves an OPEN socket to CLOSING
Close ==
    /\ listening
    /\ sock' = [p \in Peers |-> IF p \in clients /\ IsOpen(p) THEN "CLOSING" ELSE sock[p]]
    /\ clients' = ClientsAfterClose
    /\ listening' = FALSE
    /\ last' = [op |-> "closeServer"]
    /\ notes' = <<>>
    /\ UNCHANGED <<inbox, raised, broadcasts, joinedAt>>

-----------------------------------------------------------------------------
(* LocalDevAdapter                                                         *)

maxReconnectAttempts == 10

EVENT_TYPES ==
    {"component_trigger", "component_update", "component_sync", "component_mount",
     "component_unmount", "chat_message", "variable_updated"}

\* callbacks of the page; h2 throws when it is called
Handlers == {"h1", "h2"}
Throwing == {"h2"}

\* kinds the page passes to on and off
OnKinds == {"chat_message", "not_a_kind"}

\* new Map with an empty Set for every kind; a Set is kept as the sequence
\* of its members in insertion order, which is the order forEach visits
FreshListeners == [k \in EVENT_TYPES |-> <<>>]

Members(seq) == {seq[i] : i \in 1..Len(seq)}

\* Set.prototype.add
SetAdd(seq, h) == IF h \in Members(seq) THEN seq ELSE Append(seq, h)

\* Set.prototype.delete
SetDelete(seq, h) == SelectSeq(seq, LAMBDA x : x # h)

\* an assignment of b in place of the spread
SpreadReplaces(a, b) == b

\* { ...a, ...b }
Spread(a, b) == Merge(b, a)

\* the (kind, handler) pairs a registry holds
Registered(map) ==
    {kh \in (DOMAIN map) \X Handlers : kh[2] \in Members(map[kh[1]])}

\* an attemptReconnect that sets the timer without counting the attempt
AttemptReconnectUncounted(attempts, pending) == <<attempts, pending + 1>>

\* attemptReconnect(): <<reconnectAttempts, timers>> after the call
AttemptReconnect(attempts, pending) ==
    IF attempts < maxReconnectAttempts
    THEN <<attempts + 1, pending + 1>>
    ELSE <<attempts, pending>>

\* a delay that grows without the cap
ReconnectDelayUncapped(attempts) == 1000 * attempts

\* Math.min(1000 * this.reconnectAttempts, 5000), with the incremented counter
ReconnectDelay(attempts) ==
    IF 1000 * attempts < 5000 THEN 1000 * attempts ELSE 5000

\* attemptReconnect(): the delay passed to setTimeout, <<>> when no timer is set
ScheduledDelay(attempts) ==
    IF attempts < maxReconnectAttempts
    THEN <<ReconnectDelay(attempts + 1)>>
    ELSE <<>>

\* getState()
GetState == Spread(state, EmptyObject)

\* isReady()
IsReady == isInitialized /\ ws = "OPEN"

\* the value ws.onopen gives this.isInitialized
InitializedOnOpen == TRUE

\* this.listeners.get(event) is a Set
HasEntry(map, event) == event \in DOMAIN map

\* an on that creates the entry of a kind it does not know
OnRegistryCreatesEntry(map, event, h) ==
    IF HasEntry(map, event)
    THEN [map EXCEPT ![event] = SetAdd(@, h)]
    ELSE Merge(map, [k \in {event} |-> <<h>>])

\* on(event, handler): the registry after the call
OnRegistry(map, event, h) ==
    IF HasEntry(map, event)
    THEN [map EXCEPT ![event] = SetAdd(@, h)]
    ELSE map

\* off(event, handler): the registry after the call
OffRegistry(map, event, h) ==
    IF HasEntry(map, event)
    THEN [map EXCEPT ![event] = SetDelete(@, h)]
    ELSE map

\* a reset that leaves the registry as it is
ResetRegistryKept(map) == map

\* reset(): the registry after the call; every existing Set is cleared and
\* every kind of EVENT_TYPES is given a new empty Set
ResetRegistry(map) ==
    [k \in (DOMAIN map) \cup EVENT_TYPES |-> <<>>]

\* an _emit without the try/catch: the forEach ends at the first throw
EmitCallsUntilThrow(map, event, data) ==
    IF HasEntry(map, event)
    THEN LET seq == map[event]
             stop == IF \E i \in 1..Len(seq) : seq[i] \in Throwing
                     THEN CHOOSE i \in 1..Len(seq) :
                              /\ seq[i] \in Throwing
                              /\ \A j \in 1..(i - 1) : seq[j] \notin Throwing
                     ELSE Len(seq)
         IN  [i \in 1..stop |-> [handler |-> seq[i], event |-> event, data |-> data]]
    ELSE <<>>

\* _emit(event, data): the invocations made, in order
EmitCalls(map, event, data) ==
    IF HasEntry(map, event)
    THEN [i \in 1..Len(map[event]) |->
             [handler |-> map[event][i], event |-> event, data |-> data]]
    ELSE <<>>

\* a forEach body without the try/catch
EmitCatchesNothing == FALSE

\* the try/catch around handler(data) catches what the handler throws
EmitCatches == TRUE

\* _emit lets an exception out
EmitEscapes(map, event) ==
    /\ ~EmitCatches
    /\ HasEntry(map, event)
    /\ Members(map[event]) \cap Throwing # {}

\* a handleMessage that tests the payload for truthiness
DispatchesEventTruthyPayload(message) ==
    /\ Get(message, "event") \notin {Undefined, Null, ""}
    /\ Get(message, "payload") \notin {Undefined, Null, ""}

\* handleMessage: the `event` case dispatches
DispatchesEvent(message) ==
    /\ Get(message, "event") \notin {Undefined, Null, ""}
    /\ Get(message, "payload") # Undefined

\* handleMessage: the `state` case merges (message.state is truthy)
HasState(message) == "state" \in DOMAIN message

InitAdapter ==
    /\ listeners = FreshListeners
    /\ state = DefaultState
    /\ isInitialized = FALSE
    /\ reconnectAttempts = 0
    /\ timers = 0
    /\ ws = "CONNECTING"
    /\ calls = <<>>
    /\ escaped = FALSE
    /\ gotInit = FALSE
    /\ wsPeer = 0
    /\ rcvd = 0
    /\ alast = [op |-> "constructor"]
    /\ outlived = {}

\* an onopen that leaves the counter as it is
AttemptsOnOpenKept == reconnectAttempts

\* ws.onopen: this.reconnectAttempts = 0
AttemptsOnOpen == 0

\* ws.onopen; the step is labelled with the counter it found
WsOnOpen ==
    /\ ws = "CONNECTING"
    /\ ws' = "OPEN"
    /\ reconnectAttempts' = AttemptsOnOpen
    /\ isInitialized' = InitializedOnOpen
    /\ alast' = [op |-> "open", was |-> reconnectAttempts]
    /\ UNCHANGED <<listeners, state, timers, calls, escaped, gotInit>>

\* a close() that does nothing
WsCloseCalledIgnored(rs) == rs

\* this.ws?.close(): an open socket starts its closing handshake
WsCloseCalled(rs) == IF rs = "OPEN" THEN "CLOSING" ELSE rs

\* the catch of ws.onmessage runs (console.error): JSON.parse threw, or
\* the value is null and reading its type threw
LogsError(text) == ~Parses(text) \/ ParsesToNull(text)

\* a switch whose default branch resets
HandledCommandDefaultReset(command) ==
    IF command \in {"init", "reset", "disconnect"} THEN command ELSE "reset"

\* handleCommand: switch (message.command), no default branch
HandledCommand(command) == command

\* ws.onmessage with handleMessage, handleCommand, _emit, _setState,
\* _initialize and reset
AdapterOnMessage(text) ==
    /\ ws \in {"OPEN", "CLOSING"}
    /\ UNCHANGED <<reconnectAttempts, timers>>
    /\ LET message == JSONparse(text)
           type == IF ParsesToObject(text) THEN Get(message, "type") ELSE Undefined
           command == IF type = "command" THEN HandledCommand(Get(message, "command"))
                      ELSE Undefined
       IN  /\ calls' = IF type = "event" /\ DispatchesEvent(message)
                       THEN EmitCalls(listeners, message.event, message.payload)
                       ELSE <<>>
           /\ escaped' = (escaped \/ (type = "event" /\ DispatchesEvent(message)
                                       /\ EmitEscapes(listeners, message.event)))
           /\ state' = IF type = "state" /\ HasState(message)
                            THEN Spread(state, message.state)
                       ELSE IF command = "init"
                            THEN Spread(state, IF HasState(message) THEN message.state
                                               ELSE EmptyObject)
                       ELSE IF command = "reset" THEN DefaultState
                       ELSE state
           /\ isInitialized' = IF command = "init" THEN TRUE
                               ELSE IF command = "reset" THEN FALSE
                               ELSE isInitialized
           /\ gotInit' = (gotInit \/ command = "init")
           /\ listeners' = IF command = "reset" THEN ResetRegistry(listeners)
                           ELSE listeners
           /\ ws' = IF command = "disconnect" THEN WsCloseCalled(ws) ELSE ws
           \* a reset is labelled with what it discarded
           /\ alast' = IF command = "reset"
                       THEN [op |-> "message", text |-> text, logged |-> LogsError(text),
                             held |-> Cardinality(Registered(listeners)), was |-> state]
                       ELSE [op |-> "message", text |-> text, logged |-> LogsError(text)]

\* an onerror that calls attemptReconnect as onclose does
OnErrorReconnectsToo == TRUE

\* ws.onerror calls attemptReconnect: it does not, it only logs
OnErrorReconnects == FALSE

\* ws.onerror: logs.  A browser that fails a connection sets readyState to
\* CLOSED, then fires 'error', then fires 'close': the handler runs with
\* the socket no longer open and its 'close' event still to come.
WsOnErrorAdapter ==
    /\ ws \in {"CONNECTING", "OPEN", "CLOSING"}
    /\ ws' = "ERRORED"
    /\ alast' = [op |-> "error"]
    /\ reconnectAttempts' = IF OnErrorReconnects
                            THEN AttemptReconnect(reconnectAttempts, timers)[1]
                            ELSE reconnectAttempts
    /\ timers' = IF OnErrorReconnects
                 THEN AttemptReconnect(reconnectAttempts, timers)[2]
                 ELSE timers
    /\ UNCHANGED <<listeners, state, isInitialized, calls, escaped, gotInit>>

\* an onclose that resets the registry as reset() does
ListenersOnCloseReset(map) == ResetRegistry(map)

\* this.listeners after ws.onclose: the handler does not touch it
ListenersOnClose(map) == map

\* an onclose that leaves the flag as it is
InitializedOnCloseKept == isInitialized

\* the value ws.onclose gives this.isInitialized
InitializedOnClose == FALSE

\* ws.onclose; the step is labelled with the readyState it ended
WsOnCloseAdapter ==
    /\ ws \in {"CONNECTING", "OPEN", "CLOSING", "ERRORED"}
    /\ ws' = "CLOSED"
    /\ isInitialized' = InitializedOnClose
    /\ reconnectAttempts' = AttemptReconnect(reconnectAttempts, timers)[1]
    /\ timers' = AttemptReconnect(reconnectAttempts, timers)[2]
    /\ alast' = [op |-> "close", delay |-> ScheduledDelay(reconnectAttempts),
                  from |-> ws]
    /\ listeners' = ListenersOnClose(listeners)
    /\ UNCHANGED <<state, calls, escaped, gotInit>>

\* the setTimeout callback: connect(); `throws`: new WebSocket(WS_URL) threw
TimerFires(throws) ==
    /\ timers > 0
    /\ alast' = [op |-> "timer", throws |-> throws,
                  delay |-> IF throws THEN ScheduledDelay(reconnectAttempts) ELSE <<>>]
    /\ IF throws
       THEN /\ reconnectAttempts' = AttemptReconnect(reconnectAttempts, timers - 1)[1]
            /\ timers' = AttemptReconnect(reconnectAttempts, timers - 1)[2]
            /\ UNCHANGED <<ws, gotInit>>
       ELSE /\ ws' = "CONNECTING"
            /\ timers' = timers - 1
            /\ gotInit' = FALSE
            /\ UNCHANGED reconnectAttempts
    /\ UNCHANGED <<listeners, state, isInitialized, calls, escaped>>

\* on(event, handler)
On(event, h) ==
    /\ listeners' = OnRegistry(listeners, event, h)
    /\ alast' = [op |-> "on", event |-> event, handler |-> h]
    /\ UNCHANGED <<state, isInitialized, ws, reconnectAttempts, timers, calls,
                   escaped, gotInit>>

\* off(event, handler)
Off(event, h) ==
    /\ listeners' = OffRegistry(listeners, event, h)
    /\ alast' = [op |-> "off", event |-> event, handler |-> h]
    /\ UNCHANGED <<state, isInitialized, ws, reconnectAttempts, timers, calls,
                   escaped, gotInit>>

-----------------------------------------------------------------------------
(* Inputs of the adapter                                                   *)

\* texts the adapter may be handed when it is studied alone: everything the
\* relay can send, and malformed or unknown messages
AdapterTexts ==
    { JSONstringify(InitMessage),
      JSONstringify(CommandMessage("init", <<>>)),
      JSONstringify(CommandMessage("init", <<[globalConfig |-> "{theme:dark}", extra |-> "x"]>>)),
      JSONstringify(CommandMessage("reset", <<>>)),
      JSONstringify(CommandMessage("disconnect", <<>>)),
      [jsonObject |-> [type |-> "command", command |-> "reboot"]],
      TestUIText("chat_message", "{text:hi}"),
      [jsonObject |-> [type |-> "event", event |-> "component_mount", payload |-> Null]],
      JSONstringify(EventMessage("chat_message", Undefined)),
      JSONstringify(EventMessage("subscription_event", "{text:hi}")),
      [jsonObject |-> [type |-> "event", event |-> "", payload |-> "{text:hi}"]],
      JSONstringify(StateMessage([userId |-> "u2"])),
      [jsonObject |-> [type |-> "state"]],
      [jsonObject |-> [type |-> "ping"]],
      [jsonOther |-> Null],
      [garbage |-> "{oops"] }

-----------------------------------------------------------------------------
(* Specifications                                                          *)

\* before createDevWebSocketServer has returned there is no relay
InitNoRelay ==
    /\ listening = FALSE
    /\ clients = {}
    /\ sock = [p \in Peers |-> "NONE"]
    /\ inbox = [p \in Peers |-> <<>>]
    /\ notes = <<>>
    /\ raised = FALSE
    /\ broadcasts = <<>>
    /\ joinedAt = [p \in Peers |-> 0]
    /\ last = [op |-> "none"]

\* createDevWebSocketServer() has returned a relay on the default port
InitBound ==
    /\ pfPc = "bound"
    /\ startPort = DefaultStartPort
    /\ pfI = 0
    /\ probes = <<[port |-> DefaultStartPort, outcome |-> "listening"]>>
    /\ pfPort = DefaultStartPort
    /\ pfError = NoError

-----------------------------------------------------------------------------
(* Asset serving and rewriting (vite-plugin.ts)                            *)
(*                                                                         *)
(* A text is a sequence of tokens: a tag, a run of whitespace, a template  *)
(* placeholder, the adapter script.                                        *)

\* a run of whitespace
WS == " "

\* one token of String.prototype.toLowerCase
toLowerCaseToken(t) ==
    CASE t = "<!DOCTYPE html>" -> "<!doctype html>"
      [] t = "<HTML>" -> "<html>"
      [] t = "<HEAD>" -> "<head>"
      [] t = "</HEAD>" -> "</head>"
      [] OTHER -> t

\* String.prototype.toLowerCase
toLowerCase(text) == [i \in 1..Len(text) |-> toLowerCaseToken(text[i])]

RECURSIVE trimStart(_)
\* String.prototype.trimStart
trimStart(text) ==
    IF text # <<>> /\ Head(text) = WS THEN trimStart(Tail(text)) ELSE text

RECURSIVE trimEnd(_)
\* String.prototype.trimEnd
trimEnd(text) ==
    IF text # <<>> /\ text[Len(text)] = WS
    THEN trimEnd(SubSeq(text, 1, Len(text) - 1))
    ELSE text

\* String.prototype.trim
trim(text) == trimEnd(trimStart(text))

\* the tokens whose characters begin with the given prefix
TokensWithPrefix(prefix) ==
    CASE prefix = "<!doctype" -> {"<!doctype html>"}
      [] prefix = "<html" -> {"<html>", "<html lang=en>"}
      [] prefix = "<head" -> {"<head>", "<head lang=en>"}

\* String.prototype.startsWith
startsWith(text, prefix) ==
    text # <<>> /\ Head(text) \in TokensWithPrefix(prefix)

isFullHtmlDocument(html) ==
    LET trimmed == toLowerCase(trim(html))
    IN  startsWith(trimmed, "<!doctype") \/ startsWith(trimmed, "<html")

\* getLocalDevAdapterScript: the script text, the port its only parameter
getLocalDevAdapterScript(port) == "LocalDevAdapter ws://localhost:" \o ToString(port)

\* <script>${sdkScript}</script>
InlineScript(sdkScript) == <<"<script>", sdkScript, "</script>">>

\* a shell that forgets the widget's script asset
wrapWidgetHtmlNoScriptAsset(widgetHtml, port) ==
    <<"<!DOCTYPE html>", WS, "<html lang=en>", WS, "<head>", WS,
      "<meta charset=UTF-8>", WS, "<meta name=viewport>", WS,
      "<title>Widget Preview</title>", WS,
      "<link rel=stylesheet href=./style.css>", WS>>
    \o InlineScript(getLocalDevAdapterScript(port))
    \o <<WS, "</head>", WS, "<body>", WS>>
    \o widgetHtml
    \o <<WS, "</body>", WS, "</html>">>

wrapWidgetHtml(widgetHtml, port) ==
    LET sdkScript == getLocalDevAdapterScript(port)
    IN  <<"<!DOCTYPE html>", WS, "<html lang=en>", WS, "<head>", WS,
          "<meta charset=UTF-8>", WS, "<meta name=viewport>", WS,
          "<title>Widget Preview</title>", WS,
          "<link rel=stylesheet href=./style.css>", WS>>
        \o InlineScript(sdkScript)
        \o <<WS, "</head>", WS, "<body>", WS>>
        \o widgetHtml
        \o <<WS, "<script src=./script.js>", "</script>", WS, "</body>", WS, "</html>">>

\* index of the first occurrence of a token, 0 if there is none
IndexOf(text, tok) ==
    IF \E i \in 1..Len(text) : text[i] = tok
    THEN CHOOSE i \in 1..Len(text) :
             text[i] = tok /\ \A j \in 1..(i - 1) : text[j] # tok
    ELSE 0

\* String.prototype.replace with a string pattern: the first occurrence only
replace(text, tok, replacement) ==
    LET i == IndexOf(text, tok)
    IN  IF i = 0 THEN text
        ELSE SubSeq(text, 1, i - 1) \o replacement \o SubSeq(text, i + 1, Len(text))

\* the result of loadFieldConfig for a valid field.json
FieldConfig == [globalConfig |-> [title |-> "My Widget", color |-> "#ff0000"]]

\* a loader that takes an invalid field.json for a valid one
loadTemplateConfigLenient(fj) ==
    IF fj = "missing" THEN <<>> ELSE <<FieldConfig>>

\* loadTemplateConfig: <<>> for null
loadTemplateConfig(fj) ==
    CASE fj = "missing" -> <<>>
      [] fj = "invalid" -> <<>>
      [] fj = "ok" -> <<FieldConfig>>

\* loadTemplateConfig calls console.warn
loadTemplateConfigWarns(fj) == fj = "invalid"

\* the placeholders of the template engine and the variables they name
Placeholders == [t \in {"{{title}}", "{{color}}"} |->
                    IF t = "{{title}}" THEN "title" ELSE "color"]

\* the text holds a placeholder
HasPlaceholder(text) == \E i \in 1..Len(text) : text[i] \in DOMAIN Placeholders

\* TemplateEngine: every placeholder replaced by the value of its variable
Substitute(config, text) ==
    [i \in 1..Len(text) |->
        IF text[i] \in DOMAIN Placeholders THEN config[Placeholders[text[i]]]
        ELSE text[i]]

processHTML(config, html) == Substitute(config, html)
processCSS(config, code) == Substitute(config, code)
processJS(config, code) == Substitute(config, code)

\* the text the shape of the document is decided on
ProcessedHtml(engine, html) ==
    IF engine # <<>> THEN processHTML(engine[1], html) ELSE html

\* the plugin's transformIndexHtml hook
transformIndexHtml(engine, port, html) ==
    LET processedHtml == ProcessedHtml(engine, html)
    IN  IF isFullHtmlDocument(processedHtml)
        THEN replace(processedHtml, "<head>",
                     <<"<head>">> \o InlineScript(getLocalDevAdapterScript(port)))
        ELSE wrapWidgetHtml(processedHtml, port)

\* String.prototype.endsWith on a module id, split at its dots and its query
endsWith(id, suffix) == id # <<>> /\ id[Len(id)] = suffix

\* the plugin's transform hook
transform(engine, code, id) ==
    IF engine = <<>> THEN code
    ELSE IF endsWith(id, ".css") THEN processCSS(engine[1], code)
    ELSE IF endsWith(id, ".js") \/ endsWith(id, ".ts") THEN processJS(engine[1], code)
    ELSE code

\* nothing was served yet
NothingServed == [kind |-> "none", id |-> <<>>, text |-> <<>>, out |-> <<>>]

\* startDevServer(options), up to the server listening
StartDevServer(optionsWsPort) ==
    /\ devPc = "idle"
    /\ wsPort' = optionsWsPort
    /\ LET fieldConfig == loadTemplateConfig(fieldJson)
       IN  /\ templateEngine' = IF fieldConfig # <<>>
                                THEN <<fieldConfig[1].globalConfig>>
                                ELSE <<>>
           /\ warned' = loadTemplateConfigWarns(fieldJson)
    /\ devPc' = "serving"
    /\ UNCHANGED <<fieldJson, served>>

\* the asset server asks the plugin to transform index.html
TransformIndexHtml(html) ==
    /\ devPc = "serving"
    /\ served' = [kind |-> "html", id |-> <<"index", ".html">>, text |-> html,
                  out |-> transformIndexHtml(templateEngine, wsPort, html)]
    /\ UNCHANGED <<fieldJson, wsPort, devPc, templateEngine, warned>>

\* the asset server asks the plugin to transform a module
Transform(code, id) ==
    /\ devPc = "serving"
    /\ served' = [kind |-> "asset", id |-> id, text |-> code,
                  out |-> transform(templateEngine, code, id)]
    /\ UNCHANGED <<fieldJson, wsPort, devPc, templateEngine, warned>>

\* leading whitespace or none
Leads == {<<>>, <<WS>>}

\* the ways a full document opens
Opens == { <<"<!DOCTYPE html>", WS, "<html>">>, <<"<!doctype html>", "<HTML>">>,
           <<"<html>">>, <<"<HTML>">>, <<"<html lang=en>">> }

\* the head sections of the documents served
HeadSections == { <<"<head>", "</head>">>, <<"<HEAD>", "</HEAD>">>,
                  <<"<head lang=en>", "</head>">>, <<>> }

\* widget content
Contents == { <<"<div id=widget></div>">>,
              <<"<h1>", "{{title}}", "</h1>", WS>>,
              <<"<pre>", "<head>", "</pre>">> }

\* the index.html files served
Documents ==
    { lead \o open \o head \o <<"<body>">> \o content \o <<"</body>", "</html>">> :
        lead \in Leads, open \in Opens, head \in HeadSections, content \in Contents }
    \cup { lead \o content : lead \in Leads, content \in Contents }

\* the modules served: their ids and their code
Modules ==
    { <<<<"style", ".css">>, <<"h1 { color:", "{{color}}", "}">>>>,
      <<<<"style", ".css", "?direct">>, <<"h1 { color:", "{{color}}", "}">>>>,
      <<<<"script", ".js">>, <<"const title =", "{{title}}">>>>,
      <<<<"main", ".ts">>, <<"export const n = 1">>>>,
      <<<<"logo", ".svg">>, <<"<svg>", "{{color}}", "</svg>">>>> }

\* the ports the relay may have been bound to
WsPorts == {DefaultStartPort, DefaultStartPort + 1}

\* the asset server is not started
InitNoAssets ==
    /\ fieldJson = "missing"
    /\ wsPort = DefaultStartPort
    /\ devPc = "idle"
    /\ templateEngine = <<>>
    /\ warned = FALSE
    /\ served = NothingServed

-----------------------------------------------------------------------------
(* The test-event catalog (categories.ts)                                  *)
(*                                                                         *)
(* An optional field is <<>> when absent and <<v>> when it holds v.        *)

\* a catalog in which twitch-sub-t2 takes the key of twitch-sub-t1
TEST_EVENT_CATEGORIES_SharedKey ==
    <<[id |-> "chat", events |->
          << [id |-> "twitch-chat", shortcut |-> <<"1">>, event |-> "chat_message"],
             [id |-> "youtube-chat", shortcut |-> <<"2">>, event |-> "chat_message"],
             [id |-> "kick-chat", shortcut |-> <<"3">>, event |-> "chat_message"] >>],
      [id |-> "subscriptions", events |->
          << [id |-> "twitch-sub-t1", shortcut |-> <<"4">>, event |-> "subscription_event"],
             [id |-> "twitch-sub-t2", shortcut |-> <<"4">>, event |-> "subscription_event"],
             [id |-> "twitch-sub-t3", shortcut |-> <<>>, event |-> "subscription_event"],
             [id |-> "twitch-gift", shortcut |-> <<"5">>, event |-> "subscription_event"],
             [id |-> "twitch-resub", shortcut |-> <<>>, event |-> "subscription_event"],
             [id |-> "youtube-member", shortcut |-> <<"6">>, event |-> "subscription_event"],
             [id |-> "youtube-gift", shortcut |-> <<>>, event |-> "subscription_event"],
             [id |-> "kick-sub", shortcut |-> <<"7">>, event |-> "subscription_event"],
             [id |-> "kick-gift", shortcut |-> <<>>, event |-> "subscription_event"] >>],
      [id |-> "monetary", events |->
          << [id |-> "bits-100", shortcut |-> <<"8">>, event |-> "monetary_event"],
             [id |-> "bits-500", shortcut |-> <<>>, event |-> "monetary_event"],
             [id |-> "bits-1000", shortcut |-> <<>>, event |-> "monetary_event"] >>],
      [id |-> "engagement", events |->
          << [id |-> "follow", shortcut |-> <<"9">>, event |-> "engagement_event"] >>],
      [id |-> "component", events |->
          << [id |-> "trigger", shortcut |-> <<"0">>, event |-> "component_trigger"],
             [id |-> "mount", shortcut |-> <<>>, event |-> "component_mount"],
             [id |-> "unmount", shortcut |-> <<>>, event |-> "component_unmount"] >>] >>

TEST_EVENT_CATEGORIES ==
    <<[id |-> "chat", events |->
          << [id |-> "twitch-chat", shortcut |-> <<"1">>, event |-> "chat_message"],
             [id |-> "youtube-chat", shortcut |-> <<"2">>, event |-> "chat_message"],
             [id |-> "kick-chat", shortcut |-> <<"3">>, event |-> "chat_message"] >>],
      [id |-> "subscriptions", events |->
          << [id |-> "twitch-sub-t1", shortcut |-> <<"4">>, event |-> "subscription_event"],
             [id |-> "twitch-sub-t2", shortcut |-> <<>>, event |-> "subscription_event"],
             [id |-> "twitch-sub-t3", shortcut |-> <<>>, event |-> "subscription_event"],
             [id |-> "twitch-gift", shortcut |-> <<"5">>, event |-> "subscription_event"],
             [id |-> "twitch-resub", shortcut |-> <<>>, event |-> "subscription_event"],
             [id |-> "youtube-member", shortcut |-> <<"6">>, event |-> "subscription_event"],
             [id |-> "youtube-gift", shortcut |-> <<>>, event |-> "subscription_event"],
             [id |-> "kick-sub", shortcut |-> <<"7">>, event |-> "subscription_event"],
             [id |-> "kick-gift", shortcut |-> <<>>, event |-> "subscription_event"] >>],
      [id |-> "monetary", events |->
          << [id |-> "bits-100", shortcut |-> <<"8">>, event |-> "monetary_event"],
             [id |-> "bits-500", shortcut |-> <<>>, event |-> "monetary_event"],
             [id |-> "bits-1000", shortcut |-> <<>>, event |-> "monetary_event"] >>],
      [id |-> "engagement", events |->
          << [id |-> "follow", shortcut |-> <<"9">>, event |-> "engagement_event"] >>],
      [id |-> "component", events |->
          << [id |-> "trigger", shortcut |-> <<"0">>, event |-> "component_trigger"],
             [id |-> "mount", shortcut |-> <<>>, event |-> "component_mount"],
             [id |-> "unmount", shortcut |-> <<>>, event |-> "component_unmount"] >>] >>

RECURSIVE EventsFrom(_, _)
\* the definitions of the categories from the c-th on, in catalog order
EventsFrom(categories, c) ==
    IF c > Len(categories) THEN <<>>
    ELSE categories[c].events \o EventsFrom(categories, c + 1)

\* the definitions in the order the two nested loops visit them
AllEvents == EventsFrom(TEST_EVENT_CATEGORIES, 1)

\* a JavaScript string is truthy unless it is empty
Truthy(opt) == opt # <<>> /\ opt[1] # ""

\* Map.prototype.set
MapSet(map, key, value) ==
    [k \in DOMAIN map \cup {key} |-> IF k = key THEN value ELSE map[k]]

\* Map.prototype.get: <<>> for undefined
MapGet(map, key) == IF key \in DOMAIN map THEN <<map[key]>> ELSE <<>>

\* the empty Map
EmptyMap == [k \in {} |-> 0]

\* getShortcutMap: one turn of the inner loop
ShortcutMapStep ==
    /\ scPc = "loop"
    /\ scI < Len(AllEvents)
    /\ LET event == AllEvents[scI + 1]
       IN  scMap' = IF Truthy(event.shortcut)
                    THEN MapSet(scMap, event.shortcut[1], event)
                    ELSE scMap
    /\ scI' = scI + 1
    /\ UNCHANGED <<shortcut, scPc, mapResult, feI, fePc, feResult>>

\* getShortcutMap: the loops are over, the map is returned
ShortcutMapReturns ==
    /\ scPc = "loop"
    /\ scI = Len(AllEvents)
    /\ scPc' = "built"
    /\ UNCHANGED <<shortcut, scI, scMap, mapResult, feI, fePc, feResult>>

\* getShortcutMap().get(shortcut)
ShortcutMapGet ==
    /\ scPc = "built"
    /\ mapResult' = MapGet(scMap, shortcut)
    /\ scPc' = "done"
    /\ UNCHANGED <<shortcut, scI, scMap, feI, fePc, feResult>>

\* findEventByShortcut: one turn of the inner loop
FindEventStep ==
    /\ fePc = "loop"
    /\ feI < Len(AllEvents)
    /\ LET event == AllEvents[feI + 1]
       IN  IF event.shortcut = <<shortcut>>
           THEN /\ feResult' = <<event>>
                /\ fePc' = "done"
                /\ feI' = feI
           ELSE /\ feI' = feI + 1
                /\ UNCHANGED <<fePc, feResult>>
    /\ UNCHANGED <<shortcut, scI, scMap, scPc, mapResult>>

\* findEventByShortcut: the loops are over, undefined is returned
FindEventReturnsUndefined ==
    /\ fePc = "loop"
    /\ feI = Len(AllEvents)
    /\ feResult' = <<>>
    /\ fePc' = "done"
    /\ UNCHANGED <<shortcut, scI, scMap, scPc, mapResult, feI>>

\* the keys looked up: the digits, keys of the dashboard, the empty input
Keys == {"0", "1", "2", "3", "4", "5", "6", "7", "8", "9", "q", "t", "x", ""}

\* no lookup is under way
InitNoLookup ==
    /\ shortcut = ""
    /\ scI = 0
    /\ scMap = EmptyMap
    /\ scPc = "loop"
    /\ mapResult = <<>>
    /\ feI = 0
    /\ fePc = "loop"
    /\ feResult = <<>>

-----------------------------------------------------------------------------
(* DevUI, the dashboard of eeko dev (dev.tsx), and TestUI (test.tsx)       *)

\* eeko test has not been run
NotDialled == [port |-> 0, answered |-> "nobody"]

\* the useState initial values of DevUI
InitDevUI ==
    /\ serverStatus = "starting"
    /\ wsClients = 0
    /\ events = <<>>
    /\ arrived = <<>>
    /\ uiError = FALSE
    /\ showEventMenu = FALSE
    /\ testConn = NotDialled

\* a disconnect listener that leaves the counter as it is
CounterOnDisconnectKept(c) == c

\* ws.on('client:disconnect', () => setWsClients((c) => Math.max(0, c - 1)))
CounterOnDisconnect(c) == IF c - 1 > 0 THEN c - 1 ELSE 0

\* ws.on('client:connect', () => setWsClients((c) => c + 1))
CounterOnConnect(c) == c + 1

RECURSIVE CounterAfter(_, _)
\* the counter after the listeners have run for the notifications of a step
CounterAfter(c, ns) ==
    IF ns = <<>> THEN c
    ELSE CounterAfter(
             CASE Head(ns).name = "client:connect" -> CounterOnConnect(c)
               [] Head(ns).name = "client:disconnect" -> CounterOnDisconnect(c)
               [] OTHER -> c,
             Tail(ns))

\* get clientCount()
clientCount == Cardinality(clients)

\* the entries the listener keeps before it adds one: prev.slice(-9)
KeptEntries == 9

\* Array.prototype.slice(-n)
SliceLast(seq, n) ==
    IF Len(seq) > n THEN SubSeq(seq, Len(seq) - n + 1, Len(seq)) ELSE seq

\* the JSON text of a chat payload, longer than 50 characters
LongPayload == "{username:TestUser,message:Hello from the test chat,platform:twitch}"

\* String.prototype.slice(0, 50) of a JSON text
SliceFifty(text) ==
    IF text = LongPayload
    THEN "{username:TestUser,message:Hello from the test cha"
    ELSE text

\* JSON.stringify(event.payload).slice(0, 50) throws: JSON.stringify(undefined)
\* is undefined, which has no slice
PreviewThrows(payload) == payload = Undefined

\* JSON.stringify(event.payload).slice(0, 50); a payload is kept as its JSON text
Preview(payload) == SliceFifty(payload)

\* the entry the listener adds; the clock is abstracted away
LogEntry(note) == [type |-> note.type, preview |-> Preview(note.payload)]

\* ws.on('event', (event) => setEvents(...)): when the updater throws,
\* the render of DevUI fails and the log is not updated
OnEventNote(note) ==
    /\ ~uiError
    /\ arrived' = Append(arrived, note)
    /\ IF PreviewThrows(note.payload)
       THEN /\ uiError' = TRUE
            /\ UNCHANGED events
       ELSE /\ events' = Append(SliceLast(events, KeptEntries), LogEntry(note))
            /\ UNCHANGED uiError
    /\ UNCHANGED <<serverStatus, wsClients, showEventMenu, testConn>>

\* useInput((input, key) => ...) for the keys c, o and t
KeyPressed(input) ==
    /\ ~uiError
    /\ IF showEventMenu
       THEN UNCHANGED <<events, arrived, showEventMenu>>
       ELSE /\ events' = IF input = "c" THEN <<>> ELSE events
            /\ arrived' = IF input = "c" THEN <<>> ELSE arrived
            /\ showEventMenu' = (input = "t" /\ serverStatus = "ready")
    /\ UNCHANGED <<serverStatus, wsClients, uiError, testConn>>

\* TestEventMenu onCancel
MenuCancelled ==
    /\ ~uiError
    /\ showEventMenu
    /\ showEventMenu' = FALSE
    /\ UNCHANGED <<serverStatus, wsClients, events, arrived, uiError, testConn>>

\* the relay's emit calls the listeners DevUI registered; once its render
\* has failed DevUI is unmounted and they do nothing
DevUIListens ==
    /\ CASE uiError -> UNCHANGED dashVars
         [] ~uiError /\ notes' # <<>> /\ notes'[1].name = "event" ->
                OnEventNote(notes'[1])
         [] OTHER ->
                /\ wsClients' = CounterAfter(wsClients, notes')
                /\ UNCHANGED <<serverStatus, events, arrived, uiError,
                               showEventMenu, testConn>>
    /\ UNCHANGED <<pfVars, adapterVars, assetVars, catalogVars, outlived>>

\* the 'event' notifications the relay emits: a chat event, a mount event
\* with a null payload, an event without a payload
EventNotes ==
    { EventNote("chat_message", LongPayload),
      EventNote("component_mount", Null),
      EventNote("chat_message", Undefined) }

\* the notifications fed to the log between two moments it is empty
MaxNotified == 12

\* the keys fed to the dashboard
DashKeys == {"c", "o", "t"}

\* a step of the port finder leaves the relay's connections and the adapter alone
PortAlone ==
    UNCHANGED <<clients, sock, inbox, notes, raised, broadcasts, joinedAt, last,
                adapterVars, toolVars>>

\* a step of the relay with anonymous peers
RelayAlone == UNCHANGED <<toolVars, pfVars, adapterVars>>

\* a step of the adapter fed by hand
AdapterAlone == UNCHANGED <<toolVars, pfVars, relayVars, wsPeer, rcvd>>

NextPort ==
    \/ \E sp \in StartPorts : PfCall(sp) /\ PortAlone
    \/ \E outcome \in {"listening", "EADDRINUSE", "EACCES", "ERR_SOCKET_BAD_PORT"} :
           PfProbe(outcome) /\ PortAlone

\* before createDevWebSocketServer is called: no relay, a fresh adapter
InitPort ==
    InitPf /\ InitNoRelay /\ InitAdapter /\ InitNoAssets /\ InitNoLookup /\ InitDevUI

\* port probing alone
SpecPort ==
    /\ InitPort
    /\ [][NextPort]_vars

NextRelay ==
    \/ \E p \in Peers : WssConnection(p) /\ RelayAlone
    \/ \E p \in Peers, text \in PeerTexts : WsOnMessage(p, text) /\ RelayAlone
    \/ \E p \in Peers : WsOnClose(p) /\ RelayAlone
    \/ \E p \in Peers : WsOnError(p) /\ RelayAlone
    \/ \E p \in Peers : PeerCloses(p) /\ RelayAlone
    \/ \E event \in CallKinds, payload \in CallPayloads :
           EmitEvent(event, payload) /\ RelayAlone
    \/ \E s \in PartialStates : SetState(s) /\ RelayAlone
    \/ \E call \in CommandCalls : SendCommand(call[1], call[2]) /\ RelayAlone
    \/ Close /\ RelayAlone

\* after createDevWebSocketServer returned a relay and the page built its adapter
Init ==
    InitBound /\ InitRelay /\ InitAdapter /\ InitNoAssets /\ InitNoLookup /\ InitDevUI

\* the relay alone, its peers anonymous
SpecRelay ==
    /\ Init
    /\ [][NextRelay]_vars

NextAdapter ==
    \/ WsOnOpen /\ AdapterAlone
    \/ \E text \in AdapterTexts : AdapterOnMessage(text) /\ AdapterAlone
    \/ WsOnErrorAdapter /\ AdapterAlone
    \/ WsOnCloseAdapter /\ AdapterAlone
    \/ \E throws \in BOOLEAN : TimerFires(throws) /\ AdapterAlone
    \/ \E event \in OnKinds, h \in Handlers : On(event, h) /\ AdapterAlone
    \/ \E event \in OnKinds, h \in Handlers : Off(event, h) /\ AdapterAlone

\* the adapter alone, fed arbitrary texts
SpecAdapter ==
    /\ Init
    /\ [][NextAdapter]_vars

\* a step of the asset server
AssetsAlone == UNCHANGED <<pfVars, relayVars, adapterVars, catalogVars, dashVars, outlived>>

NextAssets ==
    \/ StartDevServer(wsPort) /\ AssetsAlone
    \/ \E html \in Documents : TransformIndexHtml(html) /\ AssetsAlone
    \/ \E m \in Modules : Transform(m[2], m[1]) /\ AssetsAlone

\* the relay is bound to one of its ports; field.json is missing, invalid or valid
InitAssets ==
    /\ InitBound /\ InitRelay /\ InitAdapter /\ InitNoLookup /\ InitDevUI
    /\ fieldJson \in {"missing", "invalid", "ok"}
    /\ wsPort \in WsPorts
    /\ devPc = "idle"
    /\ templateEngine = <<>>
    /\ warned = FALSE
    /\ served = NothingServed

\* the asset server and its plugin
SpecAssets ==
    /\ InitAssets
    /\ [][NextAssets]_vars

\* a step of a lookup in the catalog
CatalogAlone == UNCHANGED <<pfVars, relayVars, adapterVars, assetVars, dashVars, outlived>>

NextCatalog ==
    \/ ShortcutMapStep /\ CatalogAlone
    \/ ShortcutMapReturns /\ CatalogAlone
    \/ ShortcutMapGet /\ CatalogAlone
    \/ FindEventStep /\ CatalogAlone
    \/ FindEventReturnsUndefined /\ CatalogAlone

\* a key is looked up both ways
InitCatalog ==
    /\ InitBound /\ InitRelay /\ InitAdapter /\ InitNoAssets /\ InitDevUI
    /\ shortcut \in Keys
    /\ scI = 0
    /\ scMap = EmptyMap
    /\ scPc = "loop"
    /\ mapResult = <<>>
    /\ feI = 0
    /\ fePc = "loop"
    /\ feResult = <<>>

\* the two lookups of the catalog
SpecCatalog ==
    /\ InitCatalog
    /\ [][NextCatalog]_vars

NextDashboard ==
    \/ \E p \in Peers : WssConnection(p) /\ DevUIListens
    \/ \E p \in Peers : WsOnClose(p) /\ DevUIListens
    \/ \E p \in Peers : WsOnError(p) /\ DevUIListens
    \/ \E p \in Peers : PeerCloses(p) /\ DevUIListens
    \/ \E p \in Peers, text \in PeerTexts : WsOnMessage(p, text) /\ DevUIListens

\* the relay with the dashboard listening: peers connect, send, close and fail
SpecDashboard ==
    /\ Init
    /\ [][NextDashboard]_vars

\* validatePort returns the port: it is a number from 1024 to 65535
validatePort(port) == port >= MinValidPort /\ port <= MaxValidPort

\* const WS_PORT = 9876 of eeko test
WS_PORT == 9876

\* a start() that passes the requested port to the asset server
OptionsWsPortRequested == startPort

\* start(): wsPort: ws.port, the port of the relay createDevWebSocketServer returned
OptionsWsPort == pfPort

\* start() calls createDevWebSocketServer(wsPort) with a validated port
DevUIStarts(sp) ==
    /\ validatePort(sp)
    /\ PfCall(sp)
    /\ UNCHANGED <<clients, sock, inbox, notes, raised, broadcasts, joinedAt, last,
                   adapterVars, toolVars>>

\* start() awaits a probe; when createDevWebSocketServer throws, the catch
\* of start() sets the status to error
DevUIProbes(outcome) ==
    /\ PfProbe(outcome)
    /\ serverStatus' = IF pfPc' = "failed" THEN "error" ELSE serverStatus
    /\ UNCHANGED <<wsClients, events, arrived, uiError, showEventMenu, testConn>>
    /\ UNCHANGED <<clients, sock, inbox, notes, raised, broadcasts, joinedAt, last,
                   adapterVars, assetVars, catalogVars, outlived>>

\* start() goes on once the relay is returned: startDevServer is called
\* with the relay's port and calls onReady
DevUIStartsAssets ==
    /\ pfPc = "bound"
    /\ serverStatus = "starting"
    /\ StartDevServer(OptionsWsPort)
    /\ serverStatus' = "ready"
    /\ UNCHANGED <<wsClients, events, arrived, uiError, showEventMenu, testConn>>
    /\ UNCHANGED <<pfVars, relayVars, adapterVars, catalogVars, outlived>>

\* startDevServer throws (the asset server cannot be created): the catch
\* of start() sets the status to error
DevUIAssetsFail ==
    /\ pfPc = "bound"
    /\ serverStatus = "starting"
    /\ devPc = "idle"
    /\ devPc' = "failed"
    /\ wsPort' = OptionsWsPort
    /\ serverStatus' = "error"
    /\ UNCHANGED <<fieldJson, templateEngine, warned, served>>
    /\ UNCHANGED <<wsClients, events, arrived, uiError, showEventMenu, testConn>>
    /\ UNCHANGED <<pfVars, relayVars, adapterVars, catalogVars, outlived>>

\* TestUI of eeko test: new WebSocket(`ws://localhost:${WS_PORT}`); the
\* relay answers when it listens on that port, otherwise another process
\* does or the connection is refused
TestUIDials ==
    /\ testConn = NotDialled
    /\ \E who \in IF pfPc = "bound" /\ pfPort = WS_PORT
                  THEN {"relay"}
                  ELSE {"other", "nobody"} :
           testConn' = [port |-> WS_PORT, answered |-> who]
    /\ UNCHANGED <<serverStatus, wsClients, events, arrived, uiError, showEventMenu>>
    /\ UNCHANGED <<pfVars, relayVars, adapterVars, assetVars, catalogVars, outlived>>

\* the index.html files served by eeko dev
DevDocuments ==
    { <<"<!DOCTYPE html>", WS, "<html>", "<head>", "</head>", "<body>",
        "<div id=widget></div>", "</body>", "</html>">>,
      <<"<div id=widget></div>">> }

NextDev ==
    \/ \E sp \in StartPorts : DevUIStarts(sp)
    \/ \E outcome \in {"listening", "EADDRINUSE", "EACCES", "ERR_SOCKET_BAD_PORT"} :
           DevUIProbes(outcome)
    \/ DevUIStartsAssets
    \/ DevUIAssetsFail
    \/ \E html \in DevDocuments : TransformIndexHtml(html) /\ AssetsAlone
    \/ TestUIDials

\* eeko dev is run: nothing is started yet
InitDev ==
    /\ InitPf /\ InitNoRelay /\ InitAdapter /\ InitNoLookup /\ InitDevUI
    /\ fieldJson \in {"missing", "ok"}
    /\ wsPort = 0
    /\ devPc = "idle"
    /\ templateEngine = <<>>
    /\ warned = FALSE
    /\ served = NothingServed

\* the start of eeko dev, and eeko test run beside it
SpecDev ==
    /\ InitDev
    /\ [][NextDev]_vars

\* a step of the dashboard
DevUIAlone == UNCHANGED <<pfVars, relayVars, adapterVars, assetVars, catalogVars, outlived>>

NextEventLog ==
    \/ \E note \in EventNotes :
           Len(arrived) < MaxNotified /\ OnEventNote(note) /\ DevUIAlone
    \/ \E input \in DashKeys : KeyPressed(input) /\ DevUIAlone
    \/ MenuCancelled /\ DevUIAlone

\* the dashboard after start(), the servers starting or ready
InitEventLog ==
    /\ InitBound /\ InitRelay /\ InitAdapter /\ InitNoAssets /\ InitNoLookup
    /\ serverStatus \in {"starting", "ready"}
    /\ wsClients = 0
    /\ events = <<>>
    /\ arrived = <<>>
    /\ uiError = FALSE
    /\ showEventMenu = FALSE
    /\ testConn = NotDialled

\* the event log of the dashboard, fed notifications and keys
SpecEventLog ==
    /\ InitEventLog
    /\ [][NextEventLog]_vars

\* texts the producers of the composed system send (eeko test, a page)
ProducerTexts ==
    { TestUIText("chat_message", "{text:hi}"),
      [jsonObject |-> [type |-> "event", event |-> "component_mount",
                       payload |-> Null, origin |-> "page"]],
      [jsonObject |-> [type |-> "event", event |-> "chat_message"]] }

\* the relay accepts the connection the adapter is opening
AcceptAdapter(p) ==
    /\ ws = "CONNECTING"
    /\ wsPeer = 0
    /\ WssConnection(p)
    /\ wsPeer' = p
    /\ rcvd' = 0
    /\ UNCHANGED <<toolVars, pfVars, listeners, state, isInitialized, ws, reconnectAttempts,
                   timers, calls, escaped, gotInit, alast>>

\* the relay accepts the connection of a producer
AcceptProducer(p) ==
    /\ WssConnection(p)
    /\ UNCHANGED <<toolVars, pfVars, adapterVars>>

\* a producer sends a text; the adapter itself never sends
ProducerSends(p, text) ==
    /\ p # wsPeer
    /\ WsOnMessage(p, text)
    /\ UNCHANGED <<toolVars, pfVars, adapterVars>>

\* the handshake of the adapter's socket completes
AdapterOpens ==
    /\ wsPeer # 0
    /\ WsOnOpen
    /\ UNCHANGED <<toolVars, pfVars, relayVars, wsPeer, rcvd>>

\* the transport hands the adapter the next text the relay sent it
AdapterReceives ==
    /\ wsPeer # 0
    /\ rcvd < Len(inbox[wsPeer])
    /\ AdapterOnMessage(inbox[wsPeer][rcvd + 1])
    /\ rcvd' = rcvd + 1
    /\ UNCHANGED <<toolVars, pfVars, relayVars, wsPeer>>

\* the adapter's established connection drops or is closed (the relay of
\* the composed system stays up, so a connection attempt does not fail)
AdapterSocketCloses ==
    /\ ws \in {"OPEN", "CLOSING"}
    /\ WsOnCloseAdapter
    /\ UNCHANGED <<toolVars, pfVars, relayVars, wsPeer, rcvd>>

\* the reconnect timer fires: the new socket is not attached to the relay yet
AdapterTimerFires ==
    /\ TimerFires(FALSE)
    /\ wsPeer' = 0
    /\ rcvd' = 0
    /\ UNCHANGED <<toolVars, pfVars, relayVars>>

Next ==
    \/ \E p \in Peers : AcceptAdapter(p)
    \/ \E p \in Peers : AcceptProducer(p)
    \/ \E p \in Peers, text \in ProducerTexts : ProducerSends(p, text)
    \/ \E p \in Peers : WsOnClose(p) /\ RelayAlone
    \/ \E p \in Peers : PeerCloses(p) /\ RelayAlone
    \/ AdapterOpens
    \/ AdapterReceives
    \/ AdapterSocketCloses
    \/ AdapterTimerFires
    \/ \E h \in Handlers : On("chat_message", h) /\ AdapterAlone
    \/ \E h \in Handlers : Off("chat_message", h) /\ AdapterAlone

\* the relay, the adapter of one page and producers
Spec ==
    /\ Init
    /\ [][Next]_vars

\* the relay broadcasts a disconnect command; it has room for the
\* connection the adapter will open afterwards
RelaySendsDisconnect ==
    /\ \E q \in Peers : sock[q] = "NONE"
    /\ SendCommand("disconnect", <<>>)
    /\ RelayAlone

\* the closing handshake the adapter started with close() completes
AdapterCloseCompletes ==
    /\ ws = "CLOSING"
    /\ WsOnCloseAdapter
    /\ UNCHANGED <<toolVars, pfVars, relayVars, wsPeer, rcvd>>

\* the relay sees the close of a socket the adapter has closed or left
RelaySeesClose(p) ==
    /\ p # wsPeer \/ ws \in {"CLOSING", "CLOSED"}
    /\ WsOnClose(p)
    /\ RelayAlone

NextReconnect ==
    \/ \E p \in Peers : AcceptAdapter(p)
    \/ AdapterOpens
    \/ AdapterReceives
    \/ RelaySendsDisconnect
    \/ AdapterCloseCompletes
    \/ AdapterTimerFires
    \/ \E p \in Peers : RelaySeesClose(p)
    \/ \E h \in Handlers : On("chat_message", h) /\ AdapterAlone

\* the relay and the adapter of one page, the relay sending disconnect
\* commands.  Connections are lost only through close(); a handshake, a
\* delivery, a closing handshake and a timer all complete.
SpecReconnect ==
    /\ Init
    /\ [][NextReconnect]_vars
    /\ WF_vars(\E p \in Peers : AcceptAdapter(p))
    /\ WF_vars(AdapterOpens)
    /\ WF_vars(AdapterReceives)
    /\ WF_vars(AdapterCloseCompletes)
    /\ WF_vars(AdapterTimerFires)

\* the arguments of the emitEvent calls: <<event, payload>>
EmitEventCalls ==
    { <<"chat_message", "{text:hi}">>, <<"chat_message", Null>>,
      <<"chat_message", Undefined>>, <<"", "{text:hi}">> }

\* the relay's emitEvent is called
RelayEmits(event, payload) == EmitEvent(event, payload) /\ RelayAlone

\* the adapter's open connection is lost: 'close' fires on its socket
ConnectionLost ==
    /\ ws = "OPEN"
    /\ WsOnCloseAdapter
    /\ outlived' = Registered(listeners)
    /\ UNCHANGED <<assetVars, catalogVars, dashVars, pfVars, relayVars, wsPeer, rcvd>>

\* the page removes a callback
PageOff(event, h) ==
    /\ Off(event, h)
    /\ outlived' = outlived \ {<<event, h>>}
    /\ UNCHANGED <<assetVars, catalogVars, dashVars, pfVars, relayVars, wsPeer, rcvd>>

NextBroadcast ==
    \/ \E p \in Peers : AcceptAdapter(p)
    \/ AdapterOpens
    \/ AdapterReceives
    \/ \E call \in EmitEventCalls : RelayEmits(call[1], call[2])
    \/ ConnectionLost
    \/ AdapterTimerFires
    \/ \E p \in Peers : RelaySeesClose(p)
    \/ \E h \in Handlers : On("chat_message", h) /\ AdapterAlone
    \/ \E h \in Handlers : PageOff("chat_message", h)

\* the relay emitting events to the adapter of one page, whose connection
\* may be lost and is then opened again
SpecBroadcast ==
    /\ Init
    /\ [][NextBroadcast]_vars

\* a connection attempt fails: the browser fires 'error' on the socket ...
AttemptErrors ==
    /\ ws = "CONNECTING"
    /\ WsOnErrorAdapter
    /\ AdapterAlone

\* ... and then 'close'
AttemptFails ==
    /\ ws \in {"CONNECTING", "ERRORED"}
    /\ WsOnCloseAdapter
    /\ AdapterAlone

\* a reconnect timer fires; new WebSocket may throw
ReconnectTimer ==
    \E throws \in BOOLEAN : TimerFires(throws) /\ AdapterAlone

NextOutage ==
    \/ AttemptErrors
    \/ AttemptFails
    \/ ReconnectTimer
    \/ \E event \in OnKinds, h \in Handlers : On(event, h) /\ AdapterAlone
    \/ \E event \in OnKinds, h \in Handlers : Off(event, h) /\ AdapterAlone

\* the adapter while nothing listens on the relay's port: every connection
\* attempt fails.  A socket that cannot connect does get its 'close' event
\* and a timer that was set does fire.
SpecOutage ==
    /\ Init
    /\ [][NextOutage]_vars
    /\ WF_vars(AttemptFails)
    /\ WF_vars(ReconnectTimer)

-----------------------------------------------------------------------------
(* Properties of createDevWebSocketServer (checked under SpecPort)         *)

\* the first maxAttempts probes all answered address-in-use
AllInUse ==
    /\ Len(probes) >= maxAttempts
    /\ \A k \in 1..maxAttempts : probes[k].outcome = "EADDRINUSE"

\* C6: the k-th probe is of port startPort + (k - 1), so ports are probed in
\* strictly increasing order and each at most once; a probe that answers
\* 'listening' ends the probing and its port is the one bound, every earlier
\* probe having answered address-in-use, so no port above the bound one is
\* probed; with P and P+1 in use and P+2 free the result is P+2 after
\* exactly three probes.
C6_LinearProbing ==
    /\ \A k \in 1..Len(probes) : probes[k].port = startPort + (k - 1)
    /\ \A k \in 1..Len(probes) :
           probes[k].outcome = "listening" =>
               /\ k = Len(probes)
               /\ pfPc = "bound"
               /\ pfPort = probes[k].port
    /\ pfPc = "bound" =>
           /\ Len(probes) >= 1
           /\ probes[Len(probes)].outcome = "listening"
           /\ \A k \in 1..(Len(probes) - 1) : probes[k].outcome = "EADDRINUSE"
           /\ \A k \in 1..Len(probes) : probes[k].port <= pfPort
    /\ ( /\ Len(probes) >= 3
         /\ probes[1].outcome = "EADDRINUSE"
         /\ probes[2].outcome = "EADDRINUSE"
         /\ probes[3].outcome = "listening" ) =>
           /\ Len(probes) = 3
           /\ pfPort = startPort + 2

\* C6 witness: P and P+1 were in use, P+2 was free and is bound
C6_Witness ==
    /\ pfPc = "bound"
    /\ Len(probes) = 3
    /\ pfPort = startPort + 2
    /\ probes[1].outcome = "EADDRINUSE"
    /\ probes[2].outcome = "EADDRINUSE"

\* C7 as stated: when all maxAttempts candidate ports answer address-in-use
\* the call fails after exactly maxAttempts probes, returns no server, and
\* its error names the range tried (its first and its last port).
C7_ExhaustionNamesRange ==
    AllInUse =>
        /\ pfPc = "failed"
        /\ Len(probes) = maxAttempts
        /\ pfPort = 0 /\ ~listening
        /\ pfError.text = "No available port found starting from"
        /\ \E k \in 1..Len(pfError.ports) : pfError.ports[k] = startPort
        /\ \E k \in 1..Len(pfError.ports) : pfError.ports[k] = startPort + maxAttempts - 1

\* C7 amended: when all maxAttempts candidate ports answer address-in-use
\* the call fails after exactly maxAttempts probes, returns no server, and
\* its error is the exhaustion error, which names the starting port only;
\* the exhaustion error is produced in no other case.
C7_ExhaustionNamesStart ==
    /\ AllInUse =>
           /\ pfPc = "failed"
           /\ Len(probes) = maxAttempts
           /\ pfPort = 0 /\ ~listening
           /\ pfError = ExhaustionError(startPort)
           /\ pfError.ports = <<startPort>>
    /\ pfError.text = "No available port found starting from" => AllInUse

\* C7 witness: a run that exhausted the range
C7_Witness ==
    /\ AllInUse
    /\ pfPc = "failed"
    /\ probes[maxAttempts].port = startPort + maxAttempts - 1

\* C8: a probe that fails with a cause other than address-in-use is the
\* last probe; the call has failed with that error (its code and port), not
\* with the exhaustion error, and no server is returned.
C8_OtherErrorFailsAtOnce ==
    \A k \in 1..Len(probes) :
        probes[k].outcome \notin {"listening", "EADDRINUSE"} =>
            /\ k = Len(probes)
            /\ pfPc = "failed"
            /\ pfError = BindError(probes[k].outcome, probes[k].port)
            /\ pfError # ExhaustionError(startPort)
            /\ pfPort = 0 /\ ~listening

\* C8 witness: after two ports in use the third bind is refused (EACCES)
C8_Witness ==
    /\ pfPc = "failed"
    /\ Len(probes) = 3
    /\ probes[3].outcome = "EACCES"
    /\ pfError.code = "EACCES"

-----------------------------------------------------------------------------
(* Properties of DevWebSocketServer (checked under SpecRelay)              *)

\* the texts of the broadcasts made after position n of the log
BroadcastTextsSince(n) ==
    [i \in 1..(Len(broadcasts) - n) |-> JSONstringify(broadcasts[n + i].message)]

\* C1: a peer that has been open since it connected has received, after its
\* init, exactly one text per broadcast call made since then (emitEvent
\* calls and every other broadcast alike), in the order of the calls: none
\* lost, none duplicated, none reordered.
C1_OnePerCallInOrder ==
    \A p \in Peers :
        IsOpen(p) =>
            inbox[p] = <<JSONstringify(InitMessage)>> \o BroadcastTextsSince(joinedAt[p])

\* C1 witness: two peers stayed open through two different emitEvent calls
C1_Witness ==
    /\ \A p \in {1, 2} : IsOpen(p) /\ joinedAt[p] = 0 /\ Len(inbox[p]) = 3
    /\ Len(broadcasts) = 2
    /\ broadcasts[1].via = "emitEvent"
    /\ broadcasts[2].via = "emitEvent"
    /\ broadcasts[1].message # broadcasts[2].message
    /\ inbox[1][2] # inbox[1][3]

\* a step in which broadcast was called
BroadcastStep == Len(broadcasts') = Len(broadcasts) + 1

\* C9: a call of broadcast raises no error, leaves the connection set as it
\* is, sends nothing to a peer that is not open (whether or not it is still
\* in the set) and sends the text to every peer that is open.
C9_NonOpenPeerSkipped ==
    [][ BroadcastStep =>
          /\ ~raised'
          /\ clients' = clients
          /\ \A p \in Peers :
                inbox'[p] = IF IsOpen(p)
                            THEN Append(inbox[p],
                                     JSONstringify(broadcasts'[Len(broadcasts')].message))
                            ELSE inbox[p] ]_vars

\* C9 witness: emitEvent was called while a peer of the set was closing; it
\* was skipped and the open peer has the text
C9_Witness ==
    /\ last.op = "emitEvent"
    /\ Len(broadcasts) = 1
    /\ ~raised
    /\ \E p \in clients, q \in clients :
          /\ sock[p] = "CLOSING" /\ joinedAt[p] = 0 /\ Len(inbox[p]) = 1
          /\ IsOpen(q) /\ joinedAt[q] = 0 /\ Len(inbox[q]) = 2
          /\ inbox[q][2] = JSONstringify(broadcasts[1].message)

\* the relay step labelled `l` handled an inbound event message
IsEventReceipt(l) ==
    /\ l.op = "message"
    /\ ParsesToObject(l.text)
    /\ Get(JSONparse(l.text), "type") = "event"

-----------------------------------------------------------------------------
(* Properties of LocalDevAdapter (checked under SpecAdapter)               *)

\* C3 as stated: an adapter whose transport is open and which has handled
\* no init command on it reports isReady() = false.
C3_NotReadyBeforeInit ==
    (ws = "OPEN" /\ ~gotInit) => ~IsReady

\* the text is a reset command
IsResetText(text) ==
    /\ ParsesToObject(text)
    /\ Get(JSONparse(text), "type") = "command"
    /\ Get(JSONparse(text), "command") = "reset"

\* the adapter step labelled `l` handled a reset command
IsResetReceipt(l) == l.op = "message" /\ IsResetText(l.text)

\* C4: right after a reset command is handled the registry has exactly the
\* seven fixed kinds as keys, each with no callback, getState() is the
\* default snapshot and the adapter is not initialized.
C4_ResetRestoresDefaults ==
    IsResetReceipt(alast) =>
        /\ DOMAIN listeners = EVENT_TYPES
        /\ Cardinality(DOMAIN listeners) = 7
        /\ \A k \in DOMAIN listeners : listeners[k] = <<>>
        /\ GetState = [componentId |-> "dev-component", userId |-> "dev-user",
                       globalConfig |-> "{}", variantConfig |-> "{}"]
        /\ ~isInitialized
        /\ ~IsReady

\* C4 witness: the reset discarded two callbacks and a state that was not
\* the default one
C4_Witness ==
    /\ IsResetReceipt(alast)
    /\ alast.held = 2
    /\ alast.was # DefaultState
    /\ "extra" \in DOMAIN alast.was

\* C5: on(kind, callback) with a kind outside the fixed set lets no
\* exception out, adds no key to the registry and leaves the callbacks of
\* every kind as they were, so a dispatch to any known kind makes the same
\* invocations as before the call.
C5_UnknownKindRejected ==
    [][ (alast'.op = "on" /\ alast'.event \notin EVENT_TYPES) =>
          /\ ~escaped'
          /\ DOMAIN listeners' = DOMAIN listeners
          /\ DOMAIN listeners' = EVENT_TYPES
          /\ \A k \in EVENT_TYPES :
                /\ listeners'[k] = listeners[k]
                /\ EmitCalls(listeners', k, "{text:hi}") = EmitCalls(listeners, k, "{text:hi}")
      ]_vars

\* C5 witness: on was called with an unknown kind while a known kind held
\* a callback
C5_Witness ==
    /\ alast.op = "on"
    /\ alast.event \notin EVENT_TYPES
    /\ listeners["chat_message"] = <<"h1">>
    /\ DOMAIN listeners = EVENT_TYPES

-----------------------------------------------------------------------------
(* Properties of the composed system (checked under Spec)                  *)

\* the text is an event message with one of the adapter's kinds and a payload
IsKnownEventText(text) ==
    /\ ParsesToObject(text)
    /\ Get(JSONparse(text), "type") = "event"
    /\ Get(JSONparse(text), "event") \in EVENT_TYPES
    /\ "payload" \in DOMAIN JSONparse(text)

\* C2: when the relay receives from a producer an event message with a
\* known kind and a payload while the adapter's connection is open, the
\* text is put on the adapter's connection once; and when the adapter is
\* handed such a text, every callback then registered for the kind is
\* invoked exactly once, with the payload of the message, no other callback
\* is invoked and no exception leaves the adapter.
C2_ProducerEventInvokesCallbacks ==
    [][ /\ ( /\ IsEventReceipt(last')
             /\ adapterVars' = adapterVars
             /\ IsKnownEventText(last'.text)
             /\ wsPeer # 0
             /\ IsOpen(wsPeer) ) =>
               inbox'[wsPeer] = Append(inbox[wsPeer], last'.text)
        /\ ( /\ wsPeer # 0
             /\ wsPeer' = wsPeer
             /\ rcvd' = rcvd + 1
             /\ IsKnownEventText(inbox[wsPeer][rcvd']) ) =>
               LET message == JSONparse(inbox[wsPeer][rcvd'])
                   registered == listeners[message.event]
               IN  /\ Len(calls') = Len(registered)
                   /\ \A h \in Members(registered) :
                         Cardinality({i \in 1..Len(calls') : calls'[i].handler = h}) = 1
                   /\ \A i \in 1..Len(calls') :
                         /\ calls'[i].handler \in Members(registered)
                         /\ calls'[i].event = message.event
                         /\ calls'[i].data = message.payload
                   /\ ~escaped'
      ]_vars

\* C2 witness: the adapter was connected, a producer sent chat_message with
\* payload {text:hi}, and both registered callbacks were invoked with it
C2_Witness ==
    /\ wsPeer # 0
    /\ rcvd >= 2
    /\ alast.op = "message"
    /\ alast.text = TestUIText("chat_message", "{text:hi}")
    /\ inbox[wsPeer][rcvd] = alast.text
    /\ \E k \in 1..Len(broadcasts) :
          /\ broadcasts[k].via = "handleMessage"
          /\ JSONstringify(broadcasts[k].message) = alast.text
          /\ joinedAt[wsPeer] < k
    /\ Len(calls) = 2
    /\ calls[1].handler = "h2"
    /\ calls[2].handler = "h1"
    /\ calls[1].data = "{text:hi}"
    /\ calls[2].data = "{text:hi}"

\* the relay step labelled `l` handled an inbound state or command message
IsStateOrCommandReceipt(l) ==
    /\ l.op = "message"
    /\ ParsesToObject(l.text)
    /\ Get(JSONparse(l.text), "type") \in {"state", "command"}

\* C11: when the relay receives a state or command message from a peer, no
\* text is sent to any peer, broadcast is not called, no notification is
\* emitted and the connection set and the sockets stay as they were.
C11_StateAndCommandNotRelayed ==
    [][ IsStateOrCommandReceipt(last') =>
          /\ inbox' = inbox
          /\ broadcasts' = broadcasts
          /\ notes' = <<>>
          /\ clients' = clients
          /\ sock' = sock
          /\ ~raised' ]_vars

\* C11 witness: with two open connections in the set, one of them sent a
\* state message right after an event had been relayed; each still holds
\* its init and that event only
C11_Witness ==
    /\ IsStateOrCommandReceipt(last)
    /\ Get(JSONparse(last.text), "type") = "state"
    /\ clients = {1, 2}
    /\ \A p \in clients : IsOpen(p) /\ Len(inbox[p]) = 2
    /\ Len(broadcasts) = 1
    /\ notes = <<>>

\* the text parses to a value of the shape DevEventMessage declares: an
\* object whose type is one of the three tags, whose event, when present,
\* is a string and whose command, when present, is one of the three names
MatchesDevEventMessage(text) ==
    /\ ParsesToObject(text)
    /\ Get(JSONparse(text), "type") \in {"event", "state", "command"}
    /\ Get(JSONparse(text), "event") # Null
    /\ Get(JSONparse(text), "command") \in {Undefined, "init", "reset", "disconnect"}

\* C12 as stated: an inbound text that fails JSON parsing or does not match
\* the message schema is dropped: nothing is broadcast, no notification is
\* emitted, and the connection set and the sockets stay as they were.
C12_MalformedDropped ==
    [][ (last'.op = "message" /\ ~MatchesDevEventMessage(last'.text)) =>
          /\ inbox' = inbox
          /\ broadcasts' = broadcasts
          /\ notes' = <<>>
          /\ clients' = clients
          /\ sock' = sock ]_vars

\* C13: the step that accepts a new connection adds it to the connection
\* set, emits one client:connect notification carrying the size of the set
\* after the addition, and sends the connection the init command and nothing
\* to any other; and for every connection ever accepted the first text sent
\* to it is that init command, whatever was broadcast before or after.
C13_ConnectionGreeted ==
    [][ /\ (last'.op = "connection" /\ sock[last'.peer] = "NONE") =>
              /\ clients' = clients \cup {last'.peer}
              /\ notes' = <<[name |-> "client:connect",
                             count |-> Cardinality(clients \cup {last'.peer})]>>
              /\ inbox'[last'.peer] = <<JSONstringify(InitMessage)>>
              /\ \A q \in Peers \ {last'.peer} : inbox'[q] = inbox[q]
        /\ \A p \in Peers :
              sock'[p] # "NONE" =>
                  /\ Len(inbox'[p]) >= 1
                  /\ inbox'[p][1] = JSONstringify(InitMessage)
      ]_vars

\* C13 witness: a second connection is accepted after an event was
\* broadcast to the first; it is told of two connections and holds the init
\* only, and the first holds its init before the event
C13_Witness ==
    /\ last = [op |-> "connection", peer |-> 2]
    /\ clients = {1, 2}
    /\ notes = <<[name |-> "client:connect", count |-> 2]>>
    /\ Len(broadcasts) = 1
    /\ inbox[2] = <<JSONstringify(InitMessage)>>
    /\ Len(inbox[1]) = 2
    /\ inbox[1][1] = JSONstringify(InitMessage)
    /\ inbox[1][2] = JSONstringify(broadcasts[1].message)

\* C14: the first text sent to any connection is an init command whose
\* state is the default snapshot, whatever setState, sendCommand or event
\* broadcasts were made before the connection was accepted.
C14_InitAlwaysDefault ==
    \A p \in Peers :
        sock[p] # "NONE" =>
            /\ ParsesToObject(inbox[p][1])
            /\ Get(JSONparse(inbox[p][1]), "type") = "command"
            /\ Get(JSONparse(inbox[p][1]), "command") = "init"
            /\ JSONparse(inbox[p][1]).state =
                   [componentId |-> "dev-component", userId |-> "dev-user",
                    globalConfig |-> "{}", variantConfig |-> "{}"]

\* C14 witness: a connection accepted after a setState and an init command
\* carrying another globalConfig were broadcast to an earlier connection
C14_Witness ==
    /\ Len(broadcasts) = 2
    /\ {broadcasts[1].via, broadcasts[2].via} = {"setState", "sendCommand"}
    /\ \E k \in 1..2 : Get(broadcasts[k].message, "command") = "init"
    /\ Len(inbox[1]) = 3
    /\ joinedAt[2] = 2
    /\ last = [op |-> "connection", peer |-> 2]
    /\ JSONparse(inbox[2][1]).state.userId = "dev-user"
    /\ JSONparse(inbox[2][1]).state.globalConfig = "{}"

\* the step is the 'close' (or 'error') event of a connection
IsSocketEvent(name) ==
    /\ last'.op = name
    /\ sock[last'.peer] \in {"OPEN", "CLOSING"}

\* C15 as stated: whenever a connection closes or errors, it is removed from
\* the connection set and a client:disconnect notification carrying the new
\* size of the set is emitted.
C15_CloseOrErrorNotifies ==
    [][ (IsSocketEvent("close") \/ IsSocketEvent("error")) =>
          /\ clients' = clients \ {last'.peer}
          /\ notes' = <<[name |-> "client:disconnect",
                         count |-> Cardinality(clients \ {last'.peer})]>> ]_vars

\* C15 amended: the 'close' event of a connection removes it from the set
\* and emits client:disconnect with the new size; the 'error' event removes
\* it and emits nothing, the socket being left to its 'close' event.
C15_CloseNotifiesErrorPrunes ==
    [][ /\ IsSocketEvent("close") =>
              /\ clients' = clients \ {last'.peer}
              /\ notes' = <<[name |-> "client:disconnect",
                             count |-> Cardinality(clients \ {last'.peer})]>>
        /\ IsSocketEvent("error") =>
              /\ clients' = clients \ {last'.peer}
              /\ notes' = <<>>
              /\ sock'[last'.peer] = "CLOSING" ]_vars

\* C15 witness: of two connections one has just had an error
C15_Witness ==
    /\ last = [op |-> "error", peer |-> 1]
    /\ clients = {2}
    /\ sock[1] = "CLOSING"
    /\ IsOpen(2)
    /\ notes = <<>>

\* connection p had an error and its 'close' event has not come yet
Errored(p) == listening /\ sock[p] = "CLOSING" /\ p \notin clients

\* C16: the 'error' event of a connection leaves the server listening,
\* raises nothing, sends nothing and leaves every other connection's socket
\* and membership as they were; and a broadcast made while a connection is
\* in error is sent to every open connection of the set.
C16_ErrorIsLocal ==
    [][ /\ IsSocketEvent("error") =>
              /\ listening' = listening
              /\ ~raised'
              /\ inbox' = inbox
              /\ \A q \in Peers \ {last'.peer} :
                    /\ sock'[q] = sock[q]
                    /\ (q \in clients') = (q \in clients)
        /\ (BroadcastStep /\ \E p \in Peers : Errored(p)) =>
              /\ listening'
              /\ \A q \in Peers :
                    (q \in clients /\ IsOpen(q)) =>
                        inbox'[q] = Append(inbox[q],
                            JSONstringify(broadcasts'[Len(broadcasts')].message))
      ]_vars

\* C16 witness: connection 1 had an error, then emitEvent was called and
\* connection 2 received the text
C16_Witness ==
    /\ Errored(1)
    /\ last.op = "emitEvent"
    /\ clients = {2}
    /\ IsOpen(2)
    /\ joinedAt[2] = 0
    /\ Len(broadcasts) = 1
    /\ inbox[2] = <<JSONstringify(InitMessage), JSONstringify(broadcasts[1].message)>>
    /\ inbox[1] = <<JSONstringify(InitMessage)>>

\* C17: close() leaves none of the connections of the set open, empties
\* the set and stops the server; from then on the set stays empty
\* (clientCount is 0), no connection is accepted, and no call of emitEvent,
\* setState or sendCommand and no inbound message sends a text to any peer.
C17_ClosedRelayIsSilent ==
    [][ /\ (last'.op = "closeServer" /\ listening) =>
              /\ ~listening'
              /\ clients' = {}
              /\ \A p \in clients : sock'[p] # "OPEN"
              /\ inbox' = inbox
        /\ ~listening =>
              /\ ~listening'
              /\ clients' = {}
              /\ inbox' = inbox
              /\ \A p \in Peers :
                    /\ sock[p] = "NONE" => sock'[p] = "NONE"
                    /\ sock'[p] # "OPEN"
      ]_vars

\* C17 witness: two connections were open when close() was called; then
\* emitEvent was called, and neither connection was sent its message
C17_Witness ==
    /\ ~listening
    /\ last.op = "emitEvent"
    /\ clients = {}
    /\ Len(broadcasts) = 1
    /\ joinedAt = [p \in Peers |-> 0]
    /\ \A p \in {1, 2} :
          /\ sock[p] = "CLOSING"
          /\ inbox[p] = <<JSONstringify(InitMessage)>>

-----------------------------------------------------------------------------
(* Reconnection of LocalDevAdapter (checked under SpecAdapter)             *)

\* the adapter step just taken called attemptReconnect and it set a timer
ScheduledReconnect ==
    /\ alast.op \in {"close", "timer"}
    /\ alast.delay # <<>>

\* C18: when attemptReconnect sets the timer of the k-th consecutive
\* reconnect attempt (k is the counter after its increment), the delay is
\* 1000, 2000, 3000, 4000 ms for k = 1..4 and 5000 ms for k = 5..10.
C18_BackoffDelays ==
    ScheduledReconnect =>
        /\ reconnectAttempts \in 1..10
        /\ alast.delay[1] =
               <<1000, 2000, 3000, 4000, 5000, 5000, 5000, 5000, 5000, 5000>>[reconnectAttempts]

\* C18 witness: the tenth consecutive attempt was scheduled by a close, 5000 ms ahead
C18_Witness ==
    /\ alast.op = "close"
    /\ alast.delay = <<5000>>
    /\ reconnectAttempts = 10
    /\ timers = 1

-----------------------------------------------------------------------------
(* The adapter during an outage (checked under SpecOutage)                 *)

\* the adapter has given up: no socket, no timer, the budget spent
GaveUp ==
    /\ ws = "CLOSED"
    /\ timers = 0
    /\ reconnectAttempts = 10

\* C19: while every connection attempt fails, a timer is set only with the
\* counter below 10 and each timer set raises the counter by one, the
\* counter never goes down (so at most 10 timers are ever set), the adapter
\* eventually has no socket and no pending timer with the counter at 10,
\* and from then on it stays so and makes no connection attempt.
C19_GivesUpAfterTen ==
    /\ [][ /\ ScheduledReconnect' =>
                 /\ reconnectAttempts < 10
                 /\ reconnectAttempts' = reconnectAttempts + 1
           /\ reconnectAttempts' >= reconnectAttempts
           /\ timers' <= 1
           /\ GaveUp => (GaveUp' /\ alast'.op # "timer")
         ]_vars
    /\ <>[]GaveUp

\* C19 witness: the attempt made by the tenth timer has failed and its
\* close set no timer
C19_Witness ==
    /\ GaveUp
    /\ alast.op = "close"
    /\ alast.delay = <<>>

-----------------------------------------------------------------------------
(* The attempt counter (checked under SpecAdapter)                         *)

\* C20: the attempt counter is always between 0 and 10, and it is 0 from
\* the moment a socket opens for as long as that socket is open, so the
\* first timer set after an open is the first of ten.
C20_CounterBoundedAndReset ==
    /\ reconnectAttempts \in 0..10
    /\ alast.op = "open" => reconnectAttempts = 0
    /\ ws = "OPEN" => reconnectAttempts = 0

\* C20 witness: a socket opened after three failed attempts in a row
C20_Witness ==
    /\ alast.op = "open"
    /\ alast.was = 3
    /\ ws = "OPEN"
    /\ reconnectAttempts = 0

-----------------------------------------------------------------------------
(* Loss of the adapter's connection (checked under SpecAdapter)            *)

\* C21: when an open connection has an error the adapter is no longer ready
\* and the socket's close event is due, nothing else happening to the
\* socket before it; when the connection closes (after an error, after a
\* close() or out of the blue) the adapter is marked not initialized, is
\* not ready, and sets one reconnect timer and counts the attempt if the
\* counter is below 10, and sets none otherwise.
C21_LossStartsReconnect ==
    [][ /\ (alast'.op = "error" /\ ws = "OPEN") =>
              /\ ~IsReady'
              /\ ws' = "ERRORED"
        /\ ws = "ERRORED" => ws' \in {"ERRORED", "CLOSED"}
        /\ (alast'.op = "close" /\ ws \in {"OPEN", "CLOSING", "ERRORED"}) =>
              /\ ~isInitialized'
              /\ ~IsReady'
              /\ IF reconnectAttempts < 10
                 THEN /\ timers' = timers + 1
                      /\ reconnectAttempts' = reconnectAttempts + 1
                      /\ alast'.delay # <<>>
                 ELSE /\ timers' = timers
                      /\ reconnectAttempts' = reconnectAttempts
                      /\ alast'.delay = <<>>
      ]_vars

\* C21 witness: a connection that had received its init had an error; its
\* close event left the adapter not initialized with a timer pending
C21_Witness ==
    /\ alast.op = "close"
    /\ alast.from = "ERRORED"
    /\ gotInit
    /\ ~isInitialized
    /\ ws = "CLOSED"
    /\ timers = 1
    /\ reconnectAttempts = 1

-----------------------------------------------------------------------------
(* Dispatch and state of LocalDevAdapter (checked under SpecAdapter)       *)

\* C23: whenever the adapter handles an event message of a known kind with
\* a payload, whether or not callbacks threw then or in earlier dispatches,
\* the callbacks invoked are exactly those registered for the kind, each
\* once, in registration order and with the payload, the throwing ones
\* included; no exception leaves the adapter, and the registry, the state
\* and the socket are as before.
C23_ThrowingCallbackIsolated ==
    [][ /\ (alast'.op = "message" /\ IsKnownEventText(alast'.text)) =>
              /\ calls' =
                    [i \in 1..Len(listeners[JSONparse(alast'.text).event]) |->
                        [handler |-> listeners[JSONparse(alast'.text).event][i],
                         event |-> JSONparse(alast'.text).event,
                         data |-> JSONparse(alast'.text).payload]]
              /\ listeners' = listeners
              /\ state' = state
              /\ ws' = ws
        /\ ~escaped'
      ]_vars

\* C23 witness: h2, which throws, was registered for chat_message before
\* h1; a chat_message was dispatched to h2 and then to h1
C23_Witness ==
    /\ alast.op = "message"
    /\ IsKnownEventText(alast.text)
    /\ listeners["chat_message"] = <<"h2", "h1">>
    /\ "h2" \in Throwing
    /\ Len(calls) = 2
    /\ calls[1].handler = "h2"
    /\ calls[2] = [handler |-> "h1", event |-> "chat_message", data |-> "{text:hi}"]
    /\ ~escaped
    /\ ws = "OPEN"

\* the mapping a handled text carries in its state field (none: empty)
CarriedState(text) ==
    IF "state" \in DOMAIN JSONparse(text) THEN JSONparse(text).state ELSE EmptyObject

\* C24: handling a state message that carries a mapping S, or an init
\* command (S its state, or empty when it has none), leaves the adapter's
\* state with the keys of the old state and of S, each key of S holding
\* S's value and every other key its old value; the init marks the adapter
\* initialized and the state message leaves the flag as it was.
C24_StateMergedKeyByKey ==
    [][ (alast'.op = "message" /\ ParsesToObject(alast'.text)) =>
          /\ ( /\ Get(JSONparse(alast'.text), "type") = "state"
               /\ "state" \in DOMAIN JSONparse(alast'.text) ) =>
                 /\ state' = [k \in (DOMAIN state) \cup (DOMAIN CarriedState(alast'.text)) |->
                                 IF k \in DOMAIN CarriedState(alast'.text)
                                 THEN CarriedState(alast'.text)[k]
                                 ELSE state[k]]
                 /\ isInitialized' = isInitialized
          /\ ( /\ Get(JSONparse(alast'.text), "type") = "command"
               /\ Get(JSONparse(alast'.text), "command") = "init" ) =>
                 /\ state' = [k \in (DOMAIN state) \cup (DOMAIN CarriedState(alast'.text)) |->
                                 IF k \in DOMAIN CarriedState(alast'.text)
                                 THEN CarriedState(alast'.text)[k]
                                 ELSE state[k]]
                 /\ isInitialized'
      ]_vars

\* C24 witness: a state message set userId, then an init carrying another
\* globalConfig and a new key was handled: userId kept, globalConfig
\* replaced, the new key added, the rest at its default
C24_Witness ==
    /\ alast.op = "message"
    /\ ParsesToObject(alast.text)
    /\ Get(JSONparse(alast.text), "command") = "init"
    /\ CarriedState(alast.text) = [globalConfig |-> "{theme:dark}", extra |-> "x"]
    /\ state = [componentId |-> "dev-component", userId |-> "u2",
                globalConfig |-> "{theme:dark}", variantConfig |-> "{}",
                extra |-> "x"]
    /\ isInitialized

\* the adapter has no case for the text: it is not JSON, it is not an
\* object, its type is none of the three, or it is a command with an
\* unknown name
IsUnhandledText(text) ==
    \/ ~ParsesToObject(text)
    \/ Get(JSONparse(text), "type") \notin {"event", "state", "command"}
    \/ /\ Get(JSONparse(text), "type") = "command"
       /\ Get(JSONparse(text), "command") \notin {"init", "reset", "disconnect"}

\* C30 as stated: a text the adapter cannot parse, or whose type or command
\* it does not know, is logged and dropped: the registry, the state, the
\* initialized flag and the socket are unchanged and no callback runs.
C30_UnhandledLoggedAndDropped ==
    [][ (alast'.op = "message" /\ IsUnhandledText(alast'.text)) =>
          /\ alast'.logged
          /\ listeners' = listeners
          /\ state' = state
          /\ isInitialized' = isInitialized
          /\ ws' = ws
          /\ calls' = <<>>
          /\ ~escaped' ]_vars

\* C30 amended: such a text is dropped with the registry, the state, the
\* initialized flag and the socket unchanged, no callback run and nothing
\* thrown; it is logged only when JSON.parse fails or yields null, and a
\* text with an unknown type or command is dropped without a log line.
C30_UnhandledDropped ==
    [][ (alast'.op = "message" /\ IsUnhandledText(alast'.text)) =>
          /\ alast'.logged = (~Parses(alast'.text) \/ ParsesToNull(alast'.text))
          /\ listeners' = listeners
          /\ state' = state
          /\ isInitialized' = isInitialized
          /\ ws' = ws
          /\ calls' = <<>>
          /\ ~escaped' ]_vars

\* C30 witness: an initialized adapter holding a callback and a changed
\* state was handed a command with an unknown name; nothing was logged
C30_Witness ==
    /\ alast.op = "message"
    /\ ParsesToObject(alast.text)
    /\ Get(JSONparse(alast.text), "command") = "reboot"
    /\ ~alast.logged
    /\ ws = "OPEN"
    /\ isInitialized
    /\ listeners["chat_message"] = <<"h1">>
    /\ state.userId = "u2"

-----------------------------------------------------------------------------
(* Shape of the relay's own messages (checked under SpecRelay)             *)

\* which of event, state and command a sent text carries
Populated(text) == {"event", "state", "command"} \cap DOMAIN JSONparse(text)

\* the texts of the messages the relay built itself: the init of every
\* connection and what emitEvent, setState and sendCommand broadcast
BuiltTexts ==
    {inbox[p][1] : p \in {q \in Peers : sock[q] # "NONE"}}
    \cup {JSONstringify(broadcasts[k].message) :
              k \in {j \in 1..Len(broadcasts) : broadcasts[j].via # "handleMessage"}}

\* C28 as stated: every message the relay builds has exactly one of the
\* fields event, state and command, and its type names that field.
C28_ExactlyOneField ==
    \A text \in BuiltTexts :
        /\ Cardinality(Populated(text)) = 1
        /\ JSONparse(text).type \in Populated(text)

\* C28 amended: the type of every message the relay builds names a field
\* the message carries; an event message carries neither state nor command
\* and a state message neither event nor command; a command message
\* carries no event but may carry a state beside its command, as the init
\* of every connection does.
C28_TagNamesField ==
    /\ \A text \in BuiltTexts :
          /\ JSONparse(text).type \in Populated(text)
          /\ Populated(text) \subseteq
                 {JSONparse(text).type}
                 \cup (IF JSONparse(text).type = "command" THEN {"state"} ELSE {})
    /\ \A p \in Peers :
          sock[p] # "NONE" => Populated(inbox[p][1]) = {"command", "state"}

\* C28 witness: a connection has its init, which carries command and
\* state, and holds an event built by emitEvent and a state built by setState
C28_Witness ==
    /\ sock[1] = "OPEN"
    /\ Populated(inbox[1][1]) = {"command", "state"}
    /\ Len(broadcasts) = 2
    /\ broadcasts[1].via = "emitEvent"
    /\ broadcasts[2].via = "setState"
    /\ Len(inbox[1]) = 3
    /\ Populated(inbox[1][2]) = {"event"}
    /\ Populated(inbox[1][3]) = {"state"}

-----------------------------------------------------------------------------
(* The disconnect command (checked under SpecReconnect)                    *)

\* the text is a disconnect command
IsDisconnectText(text) ==
    /\ ParsesToObject(text)
    /\ Get(JSONparse(text), "type") = "command"
    /\ Get(JSONparse(text), "command") = "disconnect"

\* the adapter has just handled a disconnect command and its socket is closing
HandledDisconnect ==
    /\ alast.op = "message"
    /\ IsDisconnectText(alast.text)
    /\ ws = "CLOSING"

\* the adapter is on an open socket on which it has received an init
Reconnected ==
    /\ ws = "OPEN"
    /\ gotInit
    /\ isInitialized
    /\ wsPeer # 0
    /\ IsOpen(wsPeer)

\* C22: handling a disconnect command on an open socket starts closing it;
\* when the closing completes the adapter is marked not initialized and
\* sets a reconnect timer; and, the relay accepting the new connection,
\* the adapter is later on an open socket on which it has received an init.
C22_DisconnectThenReconnect ==
    /\ [][ /\ (alast'.op = "message" /\ IsDisconnectText(alast'.text) /\ ws = "OPEN") =>
                 ws' = "CLOSING"
           /\ (alast'.op = "close" /\ ws = "CLOSING") =>
                 /\ ws' = "CLOSED"
                 /\ ~isInitialized'
                 /\ timers' = timers + 1
         ]_vars
    /\ (HandledDisconnect ~> Reconnected)

\* C22 witness: after a disconnect command closed the adapter's first
\* socket (1), the adapter is open on a second one (2) and has its init
C22_Witness ==
    /\ Reconnected
    /\ wsPeer = 2
    /\ sock[1] \in {"CLOSING", "CLOSED", "OPEN"}
    /\ Len(inbox[1]) >= 2
    /\ IsDisconnectText(inbox[1][2])
    /\ alast.op = "message"
    /\ alast.text = JSONstringify(InitMessage)
    /\ reconnectAttempts = 0

-----------------------------------------------------------------------------
(* The test-event catalog (checked under SpecCatalog)                      *)

\* no two definitions of the catalog have the same shortcut
ShortcutsUnique ==
    \A i, j \in 1..Len(AllEvents) :
        (i # j /\ AllEvents[i].shortcut # <<>>) =>
            AllEvents[i].shortcut # AllEvents[j].shortcut

\* both lookups of the key have returned
BothLookedUp == fePc = "done" /\ scPc = "done"

\* C29: no two definitions of the catalog share a shortcut, and for every
\* key findEventByShortcut and getShortcutMap().get return the same
\* definition, or both return nothing.
C29_LookupsAgree ==
    /\ ShortcutsUnique
    /\ BothLookedUp => feResult = mapResult

\* C29 witness: key 5 was looked up both ways and twitch-gift was found
C29_Witness ==
    /\ BothLookedUp
    /\ shortcut = "5"
    /\ feResult # <<>>
    /\ feResult[1].id = "twitch-gift"
    /\ mapResult = feResult

-----------------------------------------------------------------------------
(* Served HTML and assets (checked under SpecAssets)                       *)

\* the adapter script of this server
SdkScript == getLocalDevAdapterScript(wsPort)

\* the number of occurrences of a token
Count(text, tok) == Cardinality({i \in 1..Len(text) : text[i] = tok})

\* the text of the latest index.html after template substitution
ServedProcessed == ProcessedHtml(templateEngine, served.text)

\* the latest request was for a full document
ServedFullDocument ==
    served.kind = "html" /\ isFullHtmlDocument(ServedProcessed)

\* the latest request was for bare widget markup
ServedBareMarkup ==
    served.kind = "html" /\ ~isFullHtmlDocument(ServedProcessed)

\* the token opens a head section, whatever its case and attributes
IsHeadOpen(tok) == toLowerCaseToken(tok) \in TokensWithPrefix("<head")

\* out is text with the inlined adapter script put right after token i
InjectedAt(text, out, i) ==
    /\ i \in 1..Len(text)
    /\ out = SubSeq(text, 1, i) \o InlineScript(SdkScript)
                 \o SubSeq(text, i + 1, Len(text))

\* out is a synthesized document: the adapter script inlined in its head,
\* its body the content followed by the reference to ./script.js
Wrapped(content, out) ==
    LET h  == IndexOf(out, "<head>")
        he == IndexOf(out, "</head>")
        b  == IndexOf(out, "<body>")
        e  == Len(out) - 2
    IN  /\ Len(out) > 2
        /\ out[1] = "<!DOCTYPE html>"
        /\ out[Len(out)] = "</html>"
        /\ 0 < h /\ h < he /\ he < b /\ b < e
        /\ out[e] = "</body>"
        /\ \E i \in (h + 1)..(he - 3) : SubSeq(out, i, i + 2) = InlineScript(SdkScript)
        /\ SubSeq(out, b + 1, e - 1) =
               <<WS>> \o content \o <<WS, "<script src=./script.js>", "</script>", WS>>

\* C25: a served document that, trimmed and lower-cased, begins with a
\* doctype or an html tag is not wrapped and holds the adapter script
\* exactly once, right after the tag that opens its head.
C25_FullDocumentInjectedOnce ==
    ServedFullDocument =>
        /\ served.out # wrapWidgetHtml(ServedProcessed, wsPort)
        /\ Count(served.out, SdkScript) = 1
        /\ \E i \in 1..Len(ServedProcessed) :
               /\ IsHeadOpen(ServedProcessed[i])
               /\ \A j \in 1..(i - 1) : ~IsHeadOpen(ServedProcessed[j])
               /\ InjectedAt(ServedProcessed, served.out, i)

\* a full document whose head opens with <HEAD> was served as it came,
\* without the adapter script
C25_ServedWithoutAdapter ==
    /\ ServedFullDocument
    /\ \E i \in 1..Len(served.text) : served.text[i] = "<HEAD>"
    /\ Count(served.out, SdkScript) = 0
    /\ served.out = ServedProcessed

ServingWithoutConfig ==
    fieldJson \in {"missing", "invalid"} /\ devPc = "serving"

-----------------------------------------------------------------------------
(* Ports accepted by eeko dev (checked under SpecPort)                     *)

\* C38: when the starting port is one validatePort accepts, every port
\* probed is in 1024..65535, and a failed run whose probes of ports in that
\* range all answered address-in-use has failed with the exhaustion error.
C38_ProbesStayInRange ==
    validatePort(startPort) =>
        /\ \A k \in 1..Len(probes) : validatePort(probes[k].port)
        /\ (/\ pfPc = "failed"
            /\ \A k \in 1..Len(probes) :
                   validatePort(probes[k].port) => probes[k].outcome = "EADDRINUSE")
           => pfError = ExhaustionError(startPort)

\* from starting port 65500, with 65500..65535 in use, port 65536 was
\* probed and the call failed with the error of that bind
C38_ProbedBeyondRange ==
    /\ validatePort(startPort)
    /\ pfPc = "failed"
    /\ Len(probes) = MaxValidPort - startPort + 2
    /\ \A k \in 1..(Len(probes) - 1) : probes[k].outcome = "EADDRINUSE"
    /\ probes[Len(probes)].port = MaxValidPort + 1
    /\ pfError = BindError("ERR_SOCKET_BAD_PORT", MaxValidPort + 1)

-----------------------------------------------------------------------------
(* Kinds the tool sends and kinds the adapter knows (checked under         *)
(* SpecCatalog)                                                            *)

\* the eventType of the TestUI each single-event eeko test subcommand
\* renders: trigger, chat, sub, bits, follow, mount, unmount, update
TestCommandKinds ==
    {"component_trigger", "chat_message", "component_mount", "component_unmount",
     "component_update"}

\* eeko test all-chat: the type field of each of getAllTestChatPayloads(),
\* in order (three chats, bits, a subscription, a follow)
AllChatKinds ==
    <<"chat_message", "chat_message", "chat_message", "monetary_event",
      "subscription_event", "engagement_event">>

\* the kinds of the catalog's definitions
CatalogKinds == {AllEvents[i].event : i \in 1..Len(AllEvents)}

\* every kind the dashboard or eeko test can send
EmittableKinds == CatalogKinds \cup TestCommandKinds \cup Members(AllChatKinds)

\* on(kind, h) on a fresh adapter registers h
CanRegister(kind, h) ==
    /\ HasEntry(OnRegistry(FreshListeners, kind, h), kind)
    /\ h \in Members(OnRegistry(FreshListeners, kind, h)[kind])

\* C37: every kind the catalog or the eeko test commands can send is one
\* of the adapter's seven kinds; the adapter's registry has an entry for
\* it, so on() registers a callback for it.
C37_EmittedKindsRegistrable ==
    \A kind \in EmittableKinds :
        /\ kind \in EVENT_TYPES
        /\ HasEntry(listeners, kind)
        /\ CanRegister(kind, "h1")

\* key 4 of the dashboard finds twitch-sub-t1; its kind is none of the
\* adapter's, and on() for it leaves the registry as it was
C37_CatalogKindUnknown ==
    /\ fePc = "done"
    /\ shortcut = "4"
    /\ feResult # <<>>
    /\ feResult[1].event = "subscription_event"
    /\ feResult[1].event \notin EVENT_TYPES
    /\ ~HasEntry(listeners, feResult[1].event)
    /\ ~CanRegister(feResult[1].event, "h1")
    /\ OnRegistry(FreshListeners, feResult[1].event, "h1") = FreshListeners

-----------------------------------------------------------------------------
(* The dashboard's event log (checked under SpecEventLog)                  *)

\* the last n elements of a sequence
Latest(seq, n) == SubSeq(seq, IF Len(seq) > n THEN Len(seq) - n + 1 ELSE 1, Len(seq))

\* C31: the log holds at most 10 entries; they are the most recent
\* notifications, in arrival order; the clear key empties the log.
C31_LogIsRingBuffer ==
    /\ [](/\ Len(events) <= 10
          /\ Len(events) = Len(Latest(arrived, 10))
          /\ \A i \in 1..Len(events) :
                 events[i].type = Latest(arrived, 10)[i].type)
    /\ [][KeyPressed("c") => events' = <<>>]_vars

\* an event without a payload was notified: the updater threw and the
\* notification is not in the log
C31_NotificationNotLogged ==
    /\ uiError
    /\ Len(arrived) = 3
    /\ arrived[3] = EventNote("chat_message", Undefined)
    /\ Len(events) = 2

-----------------------------------------------------------------------------
(* The dashboard's client counter (checked under SpecDashboard)            *)

\* sockets the error handler removed and whose 'close' is still to come
AwaitingClose == {p \in Peers : sock[p] = "CLOSING" /\ p \notin clients}

\* C32: while the dashboard is mounted, the counter is clientCount plus
\* the sockets that failed and whose close notification is still to come;
\* so when no close is outstanding, the counter equals clientCount.
C32_CounterIsClientCount ==
    ~uiError =>
        /\ wsClients = clientCount + Cardinality(AwaitingClose)
        /\ (\A p \in Peers : sock[p] # "CLOSING") => wsClients = clientCount

\* C32 witness: one socket failed and then closed, the other is connected;
\* the counter and clientCount are both 1
C32_Witness ==
    /\ last = [op |-> "close", peer |-> 1]
    /\ notes = <<CountNote("client:disconnect", {2})>>
    /\ sock[1] = "CLOSED"
    /\ sock[2] = "OPEN"
    /\ clientCount = 1
    /\ wsClients = 1
    /\ ~uiError

-----------------------------------------------------------------------------
(* The ports of eeko dev and eeko test (checked under SpecDev)             *)

\* C33: once the relay is bound, a producer command has dialled the port
\* the relay is bound to, and it is the relay that answered.
C33_ProducerReachesRelay ==
    (testConn # NotDialled /\ pfPc = "bound") =>
        /\ testConn.port = pfPort
        /\ testConn.answered = "relay"

\* the default port was in use and the relay is bound to the next one;
\* eeko test dialled the default port, where another process answered
C33_DialledOccupiedPort ==
    /\ pfPc = "bound"
    /\ startPort = DefaultStartPort
    /\ pfPort = DefaultStartPort + 1
    /\ probes[1] = [port |-> DefaultStartPort, outcome |-> "EADDRINUSE"]
    /\ testConn = [port |-> DefaultStartPort, answered |-> "other"]

\* C34: the asset server is started only when the relay is bound, and with
\* the relay's port: every adapter script in a served page is the script of
\* that port, none is the script of a requested port that was not bound;
\* a relay that failed to start stays failed, the asset server is not
\* started and the status is error.
C34_AdapterGetsBoundPort ==
    /\ [](devPc # "idle" => (pfPc = "bound" /\ wsPort = pfPort))
    /\ [](served.kind = "html" =>
            /\ Count(served.out, getLocalDevAdapterScript(pfPort)) =
                   Count(served.out, "<script>")
            /\ pfPort # startPort =>
                   Count(served.out, getLocalDevAdapterScript(startPort)) = 0)
    /\ [](pfPc = "failed" => (devPc = "idle" /\ serverStatus = "error"))
    /\ [][pfPc = "failed" => (pfPc' = "failed" /\ devPc' = "idle")]_vars

\* C34 witness: the requested port was in use, the relay is bound to the
\* next one, and a bare widget was served wrapped with the script of that port
C34_Witness ==
    /\ startPort = DefaultStartPort
    /\ pfPort = DefaultStartPort + 1
    /\ serverStatus = "ready"
    /\ served.kind = "html"
    /\ served.text = <<"<div id=widget></div>">>
    /\ Count(served.out, getLocalDevAdapterScript(DefaultStartPort + 1)) = 1
    /\ Count(served.out, getLocalDevAdapterScript(DefaultStartPort)) = 0

\* the relay failed to start and the dashboard shows the error
C34_WitnessRelayFailed ==
    /\ pfPc = "failed"
    /\ pfError.code = "EACCES"
    /\ devPc = "idle"
    /\ serverStatus = "error"

-----------------------------------------------------------------------------
(* One socket or one timer (checked under SpecAdapter)                     *)

\* C35: the adapter never has two reconnect timers pending, and while a
\* timer is pending its socket is closed: a socket that is connecting or
\* open and a pending timer never exist together, and connect() never
\* replaces a socket that is not closed.
C35_OneSocketOrOneTimer ==
    /\ timers \in {0, 1}
    /\ timers = 1 => ws = "CLOSED"
    /\ (alast.op = "timer" /\ ws = "CONNECTING") => timers = 0

\* C35 witness: after two outages, one of them of a socket that had
\* failed with an error, the second timer has fired and the adapter is
\* connecting again with no timer pending
C35_Witness ==
    /\ alast.op = "timer"
    /\ ~alast.throws
    /\ ws = "CONNECTING"
    /\ timers = 0
    /\ reconnectAttempts = 2

\* a connect() that threw has scheduled the next attempt: one timer, no socket
C35_WitnessConnectThrew ==
    /\ alast.op = "timer"
    /\ alast.throws
    /\ ws = "CLOSED"
    /\ timers = 1

-----------------------------------------------------------------------------
(* Dispatch and the registry across an outage (checked under SpecBroadcast) *)

\* the text the adapter's onmessage is about to be handed
NextText == inbox[wsPeer][rcvd + 1]

\* the invocation of handler h for the event message m is among the calls
Invoked(cs, h, m) ==
    \E i \in 1..Len(cs) : cs[i] = [handler |-> h, event |-> m.event, data |-> m.payload]

\* the event message has a non-empty kind and a payload field (null included)
KindAndPayloadPresent(m) ==
    /\ "event" \in DOMAIN m /\ m.event \notin {Null, ""}
    /\ "payload" \in DOMAIN m

\* C39: when the adapter is handed an event message, every callback
\* registered for its kind is invoked with its payload if the message has a
\* non-empty kind and a payload field, null included, and no callback is
\* invoked otherwise; a text broadcast by emitEvent(kind, undefined)
\* invokes no callback.
C39_DispatchIffKindAndPayload ==
    /\ [][rcvd' = rcvd + 1 =>
            LET m == NextText.jsonObject
            IN  IF m.type = "event" /\ KindAndPayloadPresent(m)
                THEN /\ Len(calls') = Len(listeners[m.event])
                     /\ \A h \in Members(listeners[m.event]) : Invoked(calls', h, m)
                ELSE calls' = <<>>]_vars
    /\ [][(/\ rcvd' = rcvd + 1
           /\ \E i \in 1..Len(broadcasts) :
                  /\ broadcasts[i].via = "emitEvent"
                  /\ broadcasts[i].message.payload = Undefined
                  /\ JSONstringify(broadcasts[i].message) = NextText)
          => calls' = <<>>]_vars

\* C39 witness: an event emitted with the payload null was dispatched to
\* the registered callback
C39_WitnessNullDispatched ==
    /\ alast.op = "message"
    /\ wsPeer # 0
    /\ rcvd > 0
    /\ inbox[wsPeer][rcvd] = JSONstringify(EventMessage("chat_message", Null))
    /\ calls = <<[handler |-> "h1", event |-> "chat_message", data |-> Null]>>

\* emitEvent("chat_message", undefined) was delivered to an adapter with a
\* callback registered for the kind, and no callback was invoked
C39_WitnessNoPayloadDropped ==
    /\ alast.op = "message"
    /\ wsPeer # 0
    /\ rcvd > 0
    /\ last.op = "emitEvent" /\ last.event = "chat_message" /\ last.payload = Undefined
    /\ inbox[wsPeer][rcvd] = JSONstringify(EventMessage("chat_message", Undefined))
    /\ listeners["chat_message"] # <<>>
    /\ calls = <<>>

\* C36: the callbacks registered when the adapter's connection was lost and
\* not removed since stay registered through the close, the timer, the new
\* connection and its opening, and each of them is invoked for an event of
\* its kind the adapter receives.
C36_RegistrySurvivesReconnect ==
    /\ [](outlived \subseteq Registered(listeners))
    /\ [][alast'.op \in {"close", "timer", "open"} /\ alast' # alast
            => listeners' = listeners]_vars
    /\ [][rcvd' = rcvd + 1 =>
            LET m == NextText.jsonObject
            IN  (m.type = "event" /\ KindAndPayloadPresent(m)) =>
                    \A kh \in outlived : kh[1] = m.event => Invoked(calls', kh[2], m)]_vars

\* C36 witness: a callback registered before the connection was lost was
\* invoked for an event received on the connection opened afterwards
C36_Witness ==
    /\ <<"chat_message", "h1">> \in outlived
    /\ ws = "OPEN"
    /\ wsPeer # 0
    /\ alast.op = "message"
    /\ rcvd > 1
    /\ inbox[wsPeer][rcvd].jsonObject.type = "event"
    /\ calls = <<[handler |-> "h1", event |-> "chat_message", data |-> "{text:hi}"]>>

=============================================================================
